---- MODULE Spec2Model ----
(***************************************************************************)
(* Model of the record store and persistence engine of the test-data       *)
(* manager (src/main.c): the global Database `db`, the CSV codec           *)
(* (load_database / save_database), create_new_csv, and the menu           *)
(* operations add / search / update session / soft delete / permanent     *)
(* delete / recover.  Spec is the program on the database bound at start,  *)
(* SpecCalls calls delete_record and recovery_data with every argument,    *)
(* SpecRebind adds change_database, SpecCodec loads and saves files of     *)
(* well-formed and malformed rows, SpecLib calls the validators and the    *)
(* result conversions on their own, SpecInput calls get_valid_input on     *)
(* its own next to the operations that store what it returned, SpecFind    *)
(* calls find_record_by_id, SpecSession and SpecConfirm run the edit loop  *)
(* and the confirmation prompts on what is typed at get_yes_no, SpecReuse  *)
(* follows the IDs over reloads, SpecInverse a soft delete and the recover *)
(* behind it, SpecLookup the TestID prompts with atoi.  Text is            *)
(* modelled as a sequence of one-character strings so that parsing and     *)
(* formatting are computed, not assumed.  save_database fails only when    *)
(* fopen fails (its fprintf calls are not checked by the program).         *)
(***************************************************************************)
EXTENDS Integers, Sequences, FiniteSets, TLC

(***************************************************************************)
(* Bounds of the model.                                                    *)
(***************************************************************************)
\* capacity of the table in the model (the program's value is 10000)
MaxRecordsBound == 2
\* number of IDs handed out by get_next_test_id in one run of the model
MaxAllocs == 1
\* length of the texts that the validators are run on exhaustively
MaxLen == 4
\* number of entries waiting in the input when get_valid_input is called
MaxEntries == 4

(***************************************************************************)
(* Program constants.                                                      *)
(***************************************************************************)
MAX_RECORDS == MaxRecordsBound
MAX_ATTEMPTS == 3
MIN_NAME_LENGTH == 3
\* sizeof(record->system_name) - 1: the longest text a name field holds
NAME_FIELD_MAX == 99
REQUIRED_HEADER == "TestID,SystemName,TestType,TestResult,Active"
\* range of the C type int (32 bit)
INT_MAX == 2147483647
INT_MIN == -2147483647 - 1

\* enum TestResult
FAILED == 0
PASSED == 1
PENDING == 2
SUCCESS == 3
INVALID_RESULT == -1

(***************************************************************************)
(* Characters and text.                                                    *)
(***************************************************************************)
DigitSeq == <<"0", "1", "2", "3", "4", "5", "6", "7", "8", "9">>
UpperSeq == <<"A", "B", "C", "D", "E", "F", "G", "H", "I", "J", "K", "L", "M",
              "N", "O", "P", "Q", "R", "S", "T", "U", "V", "W", "X", "Y", "Z">>
LowerSeq == <<"a", "b", "c", "d", "e", "f", "g", "h", "i", "j", "k", "l", "m",
              "n", "o", "p", "q", "r", "s", "t", "u", "v", "w", "x", "y", "z">>

Range(s) == {s[i] : i \in DOMAIN s}

isdigit(c) == c \in Range(DigitSeq)
isalnum(c) == c \in Range(DigitSeq) \cup Range(UpperSeq) \cup Range(LowerSeq)
isspace(c) == c \in {" ", "\t", "\n", "\r", "\f"}

DigitVal(c) == (CHOOSE i \in DOMAIN DigitSeq : DigitSeq[i] = c) - 1

tolower(c) ==
    IF c \in Range(UpperSeq)
    THEN LowerSeq[CHOOSE i \in DOMAIN UpperSeq : UpperSeq[i] = c]
    ELSE c

LowerText(s) == [i \in DOMAIN s |-> tolower(s[i])]

toupper(c) ==
    IF c \in Range(LowerSeq)
    THEN UpperSeq[CHOOSE i \in DOMAIN LowerSeq : LowerSeq[i] = c]
    ELSE c

\* strcasecmp(a, b) == 0
strcasecmp_eq(a, b) == LowerText(a) = LowerText(b)

RECURSIVE SkipSpaces(_)
SkipSpaces(s) ==
    IF s # <<>> /\ isspace(Head(s)) THEN SkipSpaces(Tail(s)) ELSE s

RECURSIVE DropTrailingSpaces(_)
DropTrailingSpaces(s) ==
    IF Len(s) > 1 /\ isspace(s[Len(s)])
    THEN DropTrailingSpaces(SubSeq(s, 1, Len(s) - 1))
    ELSE s

\* trim_string: the text the returned pointer designates
trim_string(s) == DropTrailingSpaces(SkipSpaces(s))

\* the buffer itself after trim_string(buffer): the terminator was written
\* behind the last non-space character, the leading spaces are still there
trim_in_place(s) == SubSeq(s, 1, Len(s) - Len(SkipSpaces(s))) \o trim_string(s)

\* strstr(haystack, needle) != NULL
strstr(haystack, needle) ==
    \E k \in 0..(Len(haystack) - Len(needle)) :
        SubSeq(haystack, k + 1, k + Len(needle)) = needle

\* strcasestr(haystack, needle) != NULL
strcasestr(haystack, needle) == strstr(LowerText(haystack), LowerText(needle))

(***************************************************************************)
(* Integer conversions.  A value of type int is kept in INT_MIN..INT_MAX;  *)
(* a decimal digit string is accumulated in two 16-bit limbs so that the   *)
(* low 32 bits of an out-of-range value can be computed.                   *)
(***************************************************************************)
\* x + 1 on an int.  At INT_MAX the addition overflows, which is undefined:
\* a build either wraps to INT_MIN (the value given here) or traps (see
\* OverflowOutcomes).
IntInc(x) == IF x = INT_MAX THEN INT_MIN ELSE x + 1

\* what a build can do when x + 1 is evaluated on an int
OverflowOutcomes(x) == IF x = INT_MAX THEN {"wrap", "trap"} ELSE {"exact"}

\* the int whose 32-bit pattern is hi * 2^16 + lo
FromLimbs(hi, lo) ==
    IF hi >= 32768 THEN (hi - 65536) * 65536 + lo ELSE hi * 65536 + lo

\* length of the longest prefix of s made of digits
RECURSIVE DigitPrefixLen(_)
DigitPrefixLen(s) ==
    IF s # <<>> /\ isdigit(Head(s)) THEN 1 + DigitPrefixLen(Tail(s)) ELSE 0

\* value of a digit string: exact when it fits an int, otherwise its low
\* 32 bits, with a flag telling that the value left the range 0..INT_MAX
RECURSIVE AccDigits(_, _, _, _)
AccDigits(s, hi, lo, big) ==
    IF s = <<>>
    THEN [hi |-> hi, lo |-> lo, big |-> big]
    ELSE LET l  == lo * 10 + DigitVal(Head(s))
             h  == hi * 10 + (l \div 65536)
         IN  AccDigits(Tail(s), h % 65536, l % 65536,
                       big \/ h >= 32768)

\* strtol(s, &endptr, 10) narrowed to int: the value and the unparsed rest
ParseInt(s) ==
    LET t    == SkipSpaces(s)
        neg  == t # <<>> /\ Head(t) = "-"
        sgn  == t # <<>> /\ Head(t) \in {"-", "+"}
        d    == IF sgn THEN Tail(t) ELSE t
        n    == DigitPrefixLen(d)
        acc  == AccDigits(SubSeq(d, 1, n), 0, 0, FALSE)
        mag  == FromLimbs(acc.hi, acc.lo)
    IN  IF n = 0
        THEN [val |-> 0, rest |-> s, big |-> FALSE]
        ELSE [val  |-> IF neg /\ mag # INT_MIN THEN 0 - mag ELSE mag,
              rest |-> SubSeq(d, n + 1, Len(d)),
              big  |-> acc.big]

\* atoi(s)
atoi(s) == ParseInt(s).val

\* digits of a non-positive number, most significant first
RECURSIVE NegDigits(_)
NegDigits(n) ==
    IF n = 0
    THEN <<>>
    ELSE LET d == (10 - (n % 10)) % 10
         IN  Append(NegDigits((n + d) \div 10), DigitSeq[d + 1])

\* printf("%d", n)
FormatInt(n) ==
    IF n = 0 THEN <<"0">>
    ELSE IF n < 0 THEN <<"-">> \o NegDigits(n)
    ELSE NegDigits(0 - n)

(***************************************************************************)
(* Records and the result mapping.                                         *)
(***************************************************************************)
\* TestRecord new_record = {0}; memset(&db, 0, sizeof(db))
ZeroRecord ==
    [test_id |-> 0, system_name |-> <<>>, test_type |-> <<>>,
     test_result |-> 0, active |-> 0]

TextFailed  == <<"F", "a", "i", "l", "e", "d">>
TextPassed  == <<"P", "a", "s", "s", "e", "d">>
TextPending == <<"P", "e", "n", "d", "i", "n", "g">>
TextSuccess == <<"S", "u", "c", "c", "e", "s", "s">>
TextUnknown == <<"U", "n", "k", "n", "o", "w", "n">>

test_result_to_string(result) ==
    CASE result = FAILED  -> TextFailed
      [] result = PASSED  -> TextPassed
      [] result = PENDING -> TextPending
      [] result = SUCCESS -> TextSuccess
      [] OTHER            -> TextUnknown

string_to_test_result_Exact(str) ==
    IF str = TextFailed THEN FAILED
    ELSE IF str = TextPassed THEN PASSED
    ELSE IF str = TextPending THEN PENDING
    ELSE IF str = TextSuccess THEN SUCCESS
    ELSE INVALID_RESULT
string_to_test_result(str) ==
    IF strcasecmp_eq(str, TextFailed) THEN FAILED
    ELSE IF strcasecmp_eq(str, TextPassed) THEN PASSED
    ELSE IF strcasecmp_eq(str, TextPending) THEN PENDING
    ELSE IF strcasecmp_eq(str, TextSuccess) THEN SUCCESS
    ELSE INVALID_RESULT

(***************************************************************************)
(* Files.  A file is its first line and its further lines; a line is the   *)
(* sequence of its comma-separated fields (a field holds no comma).        *)
(***************************************************************************)
\* The first line of a file is a sequence of pieces: pieces of text, each
\* as long as possible, and the characters "\r" and "\n" on their own.  A
\* file without any line has the empty sequence.
Missing == [exists |-> FALSE, header |-> <<>>, rows |-> <<>>]

\* fprintf(file, "%s\n", REQUIRED_HEADER)
HeaderLine == <<REQUIRED_HEADER, "\n">>

HeaderOnly == [exists |-> TRUE, header |-> HeaderLine, rows |-> <<>>]

\* line[strcspn(line, "\n\r")] = '\0': the line up to its first "\n" or "\r"
RECURSIVE CutAtTerminator(_)
CutAtTerminator(line) ==
    IF line = <<>> \/ Head(line) \in {"\n", "\r"}
    THEN <<>>
    ELSE <<Head(line)>> \o CutAtTerminator(Tail(line))

\* fgets(line, sizeof(line), file) on the first line succeeds
HasFirstLine(file) == file.exists /\ file.header # <<>>

\* validate_csv_header: the file opens, has a first line, and that line cut
\* at its terminator is the required header
validate_csv_header_AnyLine(file) == HasFirstLine(file)
validate_csv_header(file) ==
    HasFirstLine(file) /\ CutAtTerminator(file.header) = <<REQUIRED_HEADER>>

\* strtok(line, ","): the non-empty fields of the line, in order
Tokens(fields) == SelectSeq(fields, LAMBDA f : f # <<>>)

\* strncpy(dst, token, sizeof(dst) - 1); dst[sizeof(dst) - 1] = '\0'
CopyName(token) ==
    SubSeq(token, 1, IF Len(token) < NAME_FIELD_MAX THEN Len(token)
                     ELSE NAME_FIELD_MAX)

\* the TestResult column of a data row
LoadResult_Keep(token) == string_to_test_result(token)
LoadResult(token) ==
    IF string_to_test_result(token) = INVALID_RESULT THEN PENDING
    ELSE string_to_test_result(token)

\* the Active column of a data row: strtol, accepted when it consumed the
\* whole token
LoadActive(token) ==
    IF ParseInt(token).rest = <<>> THEN ParseInt(token).val ELSE 0

\* the record one data row yields once its first token is a positive number
ParseRow(tok) ==
    [test_id     |-> atoi(tok[1]),
     system_name |-> IF Len(tok) >= 2 THEN CopyName(tok[2]) ELSE <<>>,
     test_type   |-> IF Len(tok) >= 3 THEN CopyName(tok[3]) ELSE <<>>,
     test_result |-> IF Len(tok) >= 4 THEN LoadResult(tok[4]) ELSE 0,
     active      |-> IF Len(tok) >= 5 THEN LoadActive(tok[5]) ELSE 0]

\* the read loop of load_database stops at: !(count < MAX_RECORDS)
LoadTableFull_OffByOne(recs) == Len(recs) > MAX_RECORDS
LoadTableFull(recs) == Len(recs) >= MAX_RECORDS

\* the read loop of load_database over the data rows, from the records
\* loaded so far
RECURSIVE LoadRows(_, _)
LoadRows(rows, recs) ==
    IF rows = <<>> \/ LoadTableFull(recs)
    THEN recs
    ELSE LET tok == Tokens(Head(rows))
         IN  IF tok = <<>> \/ atoi(tok[1]) <= 0
             THEN LoadRows(Tail(rows), recs)
             ELSE LoadRows(Tail(rows), Append(recs, ParseRow(tok)))

\* max_id of load_database
RECURSIVE MaxId(_)
MaxId(recs) ==
    IF recs = <<>> THEN 0
    ELSE LET m == MaxId(Tail(recs))
         IN  IF Head(recs).test_id > m THEN Head(recs).test_id ELSE m

\* load_database: the table and counter it leaves in db
load_database(file) ==
    LET recs == LoadRows(file.rows, <<>>)
    IN  [ok      |-> HasFirstLine(file),
         records |-> recs,
         next_id |-> IntInc(MaxId(recs))]

\* one line written by save_database
EncodeRow_FourColumns(r) ==
    <<FormatInt(r.test_id), r.system_name, r.test_type,
      test_result_to_string(r.test_result)>>
EncodeRow(r) ==
    <<FormatInt(r.test_id), r.system_name, r.test_type,
      test_result_to_string(r.test_result), FormatInt(r.active)>>

\* (a save that writes the active records only)
EncodeFile_ActiveOnly(recs) ==
    [exists |-> TRUE, header |-> HeaderLine,
     rows   |-> [i \in DOMAIN SelectSeq(recs, LAMBDA r : r.active # 0) |->
                    EncodeRow(SelectSeq(recs, LAMBDA r : r.active # 0)[i])]]

\* the file save_database writes when fopen succeeds
EncodeFile(recs) ==
    [exists |-> TRUE, header |-> HeaderLine,
     rows   |-> [i \in DOMAIN recs |-> EncodeRow(recs[i])]]

(***************************************************************************)
(* Input validation and input acquisition.                                 *)
(***************************************************************************)
validate_system_name_AlnumOnly(input) ==
    LET trimmed == trim_string(input)
    IN  /\ Len(trimmed) >= MIN_NAME_LENGTH
        /\ \A i \in DOMAIN trimmed : isalnum(trimmed[i])
validate_system_name(input) ==
    LET trimmed == trim_string(input)
    IN  /\ Len(trimmed) >= MIN_NAME_LENGTH
        /\ \A i \in DOMAIN trimmed :
              \/ isalnum(trimmed[i])
              \/ trimmed[i] \in {"(", ")", "[", "]", "-", "_", ".", " "}

validate_test_type_InnerSpace(input) ==
    LET trimmed == trim_string(input)
    IN  /\ Len(trimmed) >= MIN_NAME_LENGTH
        /\ \A i \in DOMAIN trimmed : isalnum(trimmed[i]) \/ trimmed[i] = " "
validate_test_type(input) ==
    LET trimmed == trim_string(input)
    IN  /\ Len(trimmed) >= MIN_NAME_LENGTH
        /\ \A i \in DOMAIN trimmed : isalnum(trimmed[i])

\* long val = strtol(s, &endptr, 10): whether val > 0, and the text at
\* endptr.  A value that does not fit a long is LONG_MAX or LONG_MIN, so val
\* has the sign of the text whatever the width of long.
strtol(s) ==
    LET t == SkipSpaces(s)
        d == IF t # <<>> /\ Head(t) \in {"-", "+"} THEN Tail(t) ELSE t
        n == DigitPrefixLen(d)
    IN  IF n = 0
        THEN [positive |-> FALSE, rest |-> s]
        ELSE [positive |-> /\ Head(t) # "-"
                           /\ \E k \in 1..n : d[k] # "0",
              rest     |-> SubSeq(d, n + 1, Len(d))]

\* (a validate_test_id that does not look at endptr)
validate_test_id_Prefix(input) ==
    LET trimmed == trim_string(input)
    IN  /\ Len(trimmed) # 0
        /\ strtol(trimmed).positive
validate_test_id(input) ==
    LET trimmed == trim_string(input)
    IN  /\ Len(trimmed) # 0
        /\ strtol(trimmed).rest = <<>>
        /\ strtol(trimmed).positive

\* the validator argument of get_valid_input, by name ("none" is NULL)
Validate_Always(validator, buffer) == TRUE
Validate(validator, buffer) ==
    CASE validator = "system_name" -> validate_system_name(buffer)
      [] validator = "test_type"   -> validate_test_type(buffer)
      [] validator = "test_id"     -> validate_test_id(buffer)
      [] OTHER                     -> TRUE

\* an entry typed at a prompt: a line fgets read, or a failed read
Line(text) == [read |-> TRUE, text |-> text]
ReadError == [read |-> FALSE, text |-> <<>>]

\* get_valid_input over the entries typed at its prompt; once the entries
\* are used up the input is at end of file and every further read fails
RECURSIVE get_valid_input(_, _, _)
get_valid_input(entries, validator, attempts) ==
    IF attempts >= MAX_ATTEMPTS
    THEN [ok |-> FALSE, buffer |-> <<>>, attempts |-> attempts]
    ELSE IF entries = <<>>
    THEN get_valid_input(entries, validator, attempts + 1)
    ELSE LET e == Head(entries)
         IN  IF \/ ~e.read
                \/ Len(trim_string(e.text)) = 0
                \/ ~Validate(validator, e.text)
             THEN get_valid_input(Tail(entries), validator, attempts + 1)
             ELSE [ok |-> TRUE, buffer |-> trim_in_place(e.text),
                   attempts |-> attempts]

\* sizeof(input) - 1 in get_yes_no: the characters one fgets call reads
YES_NO_INPUT == 9

\* the decision of get_yes_no on the first character of the trimmed input
IsYes_AnyLetter(c) == c \notin {"n", "N"}
IsYes(c) == tolower(c) = "y"
IsNo(c) == tolower(c) = "n"

\* the do-while loop of get_yes_no over the entries typed at its prompt: a
\* line longer than the buffer is read in pieces, the rest of it by the
\* next fgets; at end of file every read fails
RECURSIVE AskYesNo(_, _, _, _)
AskYesNo(entries, default_answer, max_attempts, attempts) ==
    LET again(es) ==
            IF attempts + 1 < max_attempts
            THEN AskYesNo(es, default_answer, max_attempts, attempts + 1)
            ELSE default_answer
    IN  IF entries = <<>>
        THEN again(entries)
        ELSE IF ~Head(entries).read
        THEN again(Tail(entries))
        ELSE LET text == Head(entries).text
                 input == SubSeq(text, 1, IF Len(text) < YES_NO_INPUT
                                          THEN Len(text) ELSE YES_NO_INPUT)
                 rest == IF Len(text) > YES_NO_INPUT
                         THEN <<Line(SubSeq(text, YES_NO_INPUT + 1, Len(text)))>>
                                  \o Tail(entries)
                         ELSE Tail(entries)
                 trimmed == trim_string(input)
             IN  IF Len(trimmed) = 0
                 THEN IF max_attempts = 1 THEN default_answer ELSE again(rest)
                 ELSE IF IsYes(trimmed[1]) THEN TRUE
                 ELSE IF IsNo(trimmed[1]) THEN FALSE
                 ELSE IF max_attempts = 1 THEN default_answer
                 ELSE again(rest)

\* get_yes_no(prompt, default_answer, max_attempts)
get_yes_no(entries, default_answer, max_attempts) ==
    AskYesNo(entries, default_answer,
             IF max_attempts >= 1 THEN max_attempts ELSE 1, 0)

\* the TestResult a choice of the result menu selects
ResultOfChoice(choice) ==
    CASE choice = 1 -> PENDING
      [] choice = 2 -> FAILED
      [] choice = 3 -> PASSED
      [] choice = 4 -> SUCCESS

(***************************************************************************)
(* Store primitives.                                                       *)
(***************************************************************************)
\* find_record_by_id: the lowest index holding test_id, 0 for "not found"
\* (indices of the model start at 1, the program's -1 is the model's 0)
find_record_by_id(recs, test_id) ==
    IF \E i \in DOMAIN recs : recs[i].test_id = test_id
    THEN CHOOSE i \in DOMAIN recs :
            /\ recs[i].test_id = test_id
            /\ \A j \in DOMAIN recs : recs[j].test_id = test_id => i <= j
    ELSE 0

\* the shift loop of a permanent delete followed by db.count--
RemoveAt_DropLast(recs, index) == SubSeq(recs, 1, Len(recs) - 1)
RemoveAt(recs, index) ==
    [i \in 1..(Len(recs) - 1) |-> IF i < index THEN recs[i] ELSE recs[i + 1]]

\* the test of the search loop for one record and the term in search_term
search_matches(r, search_term) ==
    \/ strstr(FormatInt(r.test_id), search_term)
    \/ strcasestr(r.system_name, search_term)
    \/ strcasestr(r.test_type, search_term)
    \/ strcasestr(test_result_to_string(r.test_result), search_term)

\* the array results of search_records
search_results(recs, search_term) ==
    SelectSeq(recs, LAMBDA r : r.active # 0 /\ search_matches(r, search_term))

(***************************************************************************)
(* Inputs of the model: the files found at start and what the user types.  *)
(***************************************************************************)
NameApi == <<"A", "P", "I">>
NameWeb == <<"W", "e", "b">>
TypeUnit == <<"U", "n", "i", "t">>
TypeLoad == <<"L", "o", "a", "d">>

Paths == {"a.csv", "b.csv"}

\* snprintf(full_filename, "%s.csv", filename) unless the name holds ".csv"
FullFilename(name) == IF name \in Paths THEN name ELSE "b.csv"

\* names typed at the "Enter database name" prompt
CreateNames == {"a.csv", "b"}

DataFile(rows) == [exists |-> TRUE, header |-> HeaderLine, rows |-> rows]

\* two well-formed rows, the second soft-deleted
FileGood ==
    DataFile(<< <<<<"1">>, NameWeb, TypeLoad, TextFailed, <<"1">>>>,
                <<<<"2">>, NameApi, TypeUnit, TextPassed, <<"0">>>> >>)

\* the same TestID on two rows
FileDuplicate ==
    DataFile(<< <<<<"1">>, NameApi, TypeUnit, TextPassed, <<"1">>>>,
                <<<<"1">>, NameWeb, TypeUnit, TextPassed, <<"0">>>> >>)

\* a TestID one below the largest int
FileLargeId ==
    DataFile(<< <<FormatInt(INT_MAX - 1), NameApi, TypeUnit, TextPassed,
                  <<"0">>>> >>)

\* one data row more than the table holds
FileOverfull ==
    DataFile([i \in 1..(MAX_RECORDS + 1) |->
                 <<FormatInt(i), NameApi, TypeUnit, TextPassed, <<"1">>>>])

\* a row without a numeric TestID, a row with an unknown result and an
\* Active column of 2, and a row that ends after the TestID
FileMalformed ==
    DataFile(<< <<<<"x">>, NameApi, TypeUnit, TextPassed, <<"1">>>>,
                <<<<"3">>, NameApi, TypeUnit, <<"B", "a", "d">>, <<"2">>>>,
                <<<<"4">>>> >>)

\* one row with an unknown result and an Active column of 2
FileFlagTwo ==
    DataFile(<< <<<<"3">>, NameApi, TypeUnit, <<"B", "a", "d">>, <<"2">>>> >>)

\* a file with one data row behind the given first line
FileWithHeader(line) ==
    [exists |-> TRUE, header |-> line,
     rows   |-> << <<<<"1">>, NameApi, TypeUnit, TextPassed, <<"1">>>> >>]

\* a first line with two columns only
FileBadHeader == FileWithHeader(<<"TestID,SystemName", "\n">>)

\* first lines that differ from the required header by a trailing space, by
\* letter case and by text behind a carriage return; the header ended by
\* "\r\n" and by the end of the file; a file of zero bytes
HeaderSpaced == "TestID,SystemName,TestType,TestResult,Active "
HeaderLower  == "testid,systemname,testtype,testresult,active"
FileHeaderSpace  == FileWithHeader(<<HeaderSpaced, "\n">>)
FileHeaderCase   == FileWithHeader(<<HeaderLower, "\n">>)
FileHeaderCrLf   == FileWithHeader(<<REQUIRED_HEADER, "\r", "\n">>)
FileHeaderAtEof  ==
    [exists |-> TRUE, header |-> <<REQUIRED_HEADER>>, rows |-> <<>>]
FileEmpty        == [exists |-> TRUE, header |-> <<>>, rows |-> <<>>]

\* the files a database is changed to
OtherFiles ==
    {Missing, FileBadHeader, FileHeaderSpace, FileHeaderCase, FileHeaderCrLf,
     FileHeaderAtEof, FileEmpty}

\* data rows for the codec: two rows in the persisted format, the second
\* with a leading zero in its TestID and its result in lower case; rows
\* whose first field is a word, zero, digits followed by letters, and
\* empty; a row that ends after its TestID
RowWeb      == <<<<"1">>, NameWeb, TypeLoad, TextFailed, <<"1">>>>
RowLower    ==
    <<<<"0", "2">>, NameApi, TypeUnit, LowerText(TextPassed), <<"0">>>>
RowWord     == <<<<"x">>, NameApi, TypeUnit, TextPassed, <<"1">>>>
RowZero     == <<<<"0">>, NameApi, TypeUnit, TextPassed, <<"1">>>>
RowDigitsText ==
    <<<<"5", "a", "b", "c">>, NameApi, TypeUnit, TextPassed, <<"1">>>>
RowEmptyFirst == <<<<>>, <<"7">>, NameApi, TypeUnit, TextPassed, <<"1">>>>
RowIdOnly   == <<<<"4">>>>
CodecRows ==
    {RowWeb, RowLower, RowWord, RowZero, RowDigitsText, RowEmptyFirst,
     RowIdOnly}

\* the files the codec is run on: the required header and up to one data
\* row more than the table holds
CodecFiles ==
    UNION {{DataFile(rows) : rows \in [1..n -> CodecRows]} :
              n \in 0..(MAX_RECORDS + 1)}

InitialFiles ==
    {FileGood, FileDuplicate, FileLargeId, FileOverfull, FileFlagTwo,
     FileBadHeader}

\* what is typed at a system name prompt, entry by entry
NamesAccepted == <<Line(<<"A", "B">>), Line(<<" ", "A", "P", "I", " ">>)>>
NamesRejected == <<Line(<<"a", ",", "b", "c">>), Line(<<" ">>), ReadError>>
NameEntries == {NamesAccepted, NamesRejected}

\* what is typed at a test type prompt
TypesAccepted == <<Line(<<>>), Line(TypeUnit)>>
TypesRejected ==
    <<Line(<<"U", " ", "n", "i", "t">>), Line(<<"\t">>), Line(<<"x", "y">>)>>
TypeEntries == {TypesAccepted, TypesRejected}

\* what is typed at the search prompt: a term in another case than the
\* stored names; the same term behind two spaces; digits of a TestID; two
\* characters behind a space; nothing that can be read
SearchApi     == <<Line(<<"a", "p", "i">>)>>
SearchSpaced  == <<Line(<<" ", " ", "A", "P", "I", " ">>)>>
SearchDigits  == <<Line(<<"2", "1", "4">>)>>
SearchShort   == <<Line(<<" ", "a", "b">>)>>
SearchNothing == <<ReadError, Line(<<" ">>), Line(<<>>)>>
SearchEntries ==
    {SearchApi, SearchSpaced, SearchDigits, SearchShort, SearchNothing}

\* what get_menu_choice returns at a result menu (-1: attempts used up)
ResultChoices == {3, -1}

\* a TestID typed by the user that no record carries
AbsentId == 50

\* the positive numbers the user types at a TestID prompt
IdInputs(recs) ==
    {recs[i].test_id : i \in {j \in DOMAIN recs : recs[j].test_id > 0}}
        \cup {AbsentId}

(***************************************************************************)
(* State.                                                                  *)
(***************************************************************************)
VARIABLES
    records,    \* db.records[0 .. db.count - 1]
    next_id,    \* db.next_id
    filename,   \* db.filename
    disk,       \* the files, by path
    pc,         \* "select": no database yet; "main": main menu;
                \* "editing": inside the edit loop of update_record_by_id;
                \* "trapped": the process was ended by an overflow trap
    session,    \* index and backup of the edit loop, and the table as it
                \* was when the loop was entered
    last,       \* the operation that ran last and how it ended
    allocs,     \* number of calls of get_next_test_id so far
    found,      \* what the last operation, if it was a search, searched
                \* for and displayed
    call        \* the library function called on its own last, with its
                \* argument and what it returned; for the codec, the file
                \* the table was loaded from and whether it was saved since;
                \* in the later specifications what the operation before
                \* was given or left (a change attempt, typed lines, the
                \* IDs seen so far, the table before a soft delete, the
                \* TestID as typed and as looked up)

vars ==
    <<records, next_id, filename, disk, pc, session, last, allocs, found,
      call>>

\* no library function was called on its own, and none is about to be
NoCall == [fn |-> "none", kind |-> "none"]
\* a library function is about to be called with the argument arg
Argument(kind, arg) == [fn |-> "none", kind |-> kind, arg |-> arg]

\* found: query is the trimmed text whose length search_records checks,
\* results the records it displayed
NoSearch == [searched |-> FALSE, query |-> <<>>, results |-> <<>>]
Searched(query, results) ==
    [searched |-> TRUE, query |-> query, results |-> results]

NoSession == [index |-> 0, backup |-> ZeroRecord, start |-> <<>>]

Done(op, outcome) == [op |-> op, outcome |-> outcome]

Init ==
    /\ records = <<>>
    /\ next_id = 0
    /\ filename = ""
    /\ disk \in {[p \in Paths |-> IF p = "a.csv" THEN f ELSE Missing] :
                    f \in InitialFiles}
    /\ pc = "select"
    /\ session = NoSession
    /\ last = Done("start", "none")
    /\ allocs = 0
    /\ found = NoSearch
    /\ call = NoCall

\* save_database: fopen(db.filename, "w") succeeded (can_open) or not;
\* recs is the table at the time of the call
save_database(recs, can_open) ==
    IF can_open
    THEN disk' = [disk EXCEPT ![filename] = EncodeFile(recs)]
    ELSE disk' = disk

(***************************************************************************)
(* Binding a database at program start (the loop of main around            *)
(* select_database): a listed file or a typed path is opened, or a new     *)
(* database is created.                                                    *)
(***************************************************************************)
\* a listed file or a typed path: validate_csv_header, then load_database
select_file_ClearFirst(path) ==
    /\ IF validate_csv_header(disk[path]) /\ load_database(disk[path]).ok
       THEN /\ records' = load_database(disk[path]).records
            /\ next_id' = load_database(disk[path]).next_id
            /\ filename' = path
            /\ pc' = "main"
            /\ last' = Done("open", "loaded")
       ELSE /\ records' = <<>>
            /\ UNCHANGED <<next_id, filename, pc>>
            /\ last' = Done("open", "rejected")
    /\ UNCHANGED disk
select_file(path) ==
    /\ IF validate_csv_header(disk[path]) /\ load_database(disk[path]).ok
       THEN /\ records' = load_database(disk[path]).records
            /\ next_id' = load_database(disk[path]).next_id
            /\ filename' = path
            /\ pc' = "main"
            /\ last' = Done("open", "loaded")
       ELSE /\ UNCHANGED <<records, next_id, filename, pc>>
            /\ last' = Done("open", "rejected")
    /\ UNCHANGED disk

OpenDatabase(path) ==
    /\ pc = "select"
    /\ select_file(path)
    /\ UNCHANGED <<session, allocs>>
    /\ found' = NoSearch

\* access(full_filename, F_OK) != -1
PathExists_Never(file) == FALSE
PathExists(file) == file.exists

create_new_csv(name, can_open) ==
    IF PathExists(disk[FullFilename(name)])
    THEN /\ UNCHANGED <<records, next_id, filename, pc, disk>>
         /\ last' = Done("create", "exists")
    ELSE IF ~can_open
    THEN /\ UNCHANGED <<records, next_id, filename, pc, disk>>
         /\ last' = Done("create", "failed")
    ELSE /\ disk' = [disk EXCEPT ![FullFilename(name)] = HeaderOnly]
         /\ filename' = FullFilename(name)
         /\ records' = <<>>
         /\ next_id' = 1
         /\ pc' = "main"
         /\ last' = Done("create", "created")

\* create_new_database_prompt
CreateDatabase(name, can_open) ==
    /\ pc = "select"
    /\ create_new_csv(name, can_open)
    /\ UNCHANGED <<session, allocs>>
    /\ found' = NoSearch

\* change_database: after the confirmation, select_database with a file or
\* a path chosen
ChangeDatabaseOpen(answer, path) ==
    /\ pc = "main"
    /\ IF answer
       THEN select_file(path)
       ELSE /\ UNCHANGED <<records, next_id, filename, pc, disk>>
            /\ last' = Done("change", "declined")
    /\ UNCHANGED <<session, allocs>>
    /\ found' = NoSearch

\* change_database: after the confirmation, select_database returns 0
\* without a file: the menu was abandoned, "Do nothing" was chosen, or the
\* name or path prompt was cancelled
ChangeDatabaseNone ==
    /\ pc = "main"
    /\ last' = Done("change", "none_selected")
    /\ UNCHANGED <<records, next_id, filename, pc, disk, session, allocs>>
    /\ found' = NoSearch

\* change_database: after the confirmation, select_database with "Create
\* new database" chosen
ChangeDatabaseCreate(name, can_open) ==
    /\ pc = "main"
    /\ create_new_csv(name, can_open)
    /\ UNCHANGED <<session, allocs>>
    /\ found' = NoSearch

(***************************************************************************)
(* add_new_record                                                          *)
(***************************************************************************)
\* if (db.count >= MAX_RECORDS)
AddIsFull_OffByOne(recs) == Len(recs) > MAX_RECORDS
AddIsFull(recs) == Len(recs) >= MAX_RECORDS

\* strcpy(field, text) into a 100-byte field of a record: the text and its
\* terminator fit, or the copy is undefined: it runs on into the bytes
\* behind the field, whose meaning depends on the byte order of int, or
\* the hardened strcpy ends the process
CopyOutcomes(text) ==
    IF Len(text) > NAME_FIELD_MAX
    THEN {"spill_le", "spill_be", "trap"}
    ELSE {"exact"}

\* the character code of a character that a name can hold
Code(c) ==
    CASE isdigit(c) -> 48 + DigitVal(c)
      [] c \in Range(UpperSeq) ->
            64 + (CHOOSE i \in DOMAIN UpperSeq : UpperSeq[i] = c)
      [] c \in Range(LowerSeq) ->
            96 + (CHOOSE i \in DOMAIN LowerSeq : LowerSeq[i] = c)
      [] c = " " -> 32
      [] c = "(" -> 40
      [] c = ")" -> 41
      [] c = "-" -> 45
      [] c = "." -> 46
      [] c = "[" -> 91
      [] c = "]" -> 93
      [] c = "_" -> 95

\* the four bytes of an int, lowest first
IntBytes(v) ==
    LET u == IF v < 0 THEN v - INT_MIN ELSE v
    IN  <<u % 256, (u \div 256) % 256, (u \div 65536) % 256,
          (u \div 16777216) + (IF v < 0 THEN 128 ELSE 0)>>

\* the int of four bytes, lowest first
BytesInt(b) ==
    IF b[4] >= 128
    THEN INT_MIN + ((b[4] - 128) * 16777216 + b[3] * 65536 + b[2] * 256 + b[1])
    ELSE b[4] * 16777216 + b[3] * 65536 + b[2] * 256 + b[1]

\* the bytes in the order of memory for the byte order of the outcome
InMemory(b, copy) == IF copy = "spill_be" THEN <<b[4], b[3], b[2], b[1]>> ELSE b

\* the int v that lies `offset` bytes behind the start of the field, after
\* the text and its terminator were copied to the field
Overrun(v, offset, text, copy) ==
    LET old == InMemory(IntBytes(v), copy)
        new == [k \in 1..4 |->
                   IF offset + k <= Len(text) THEN Code(text[offset + k])
                   ELSE IF offset + k = Len(text) + 1 THEN 0
                   ELSE old[k]]
    IN  BytesInt(InMemory(new, copy))

\* offsets of test_type, test_result and active from system_name, and of
\* the record that follows
TYPE_OFFSET == 100
RESULT_OFFSET == 200
ACTIVE_OFFSET == 204
RECORD_END == 208

\* the record as its fields read after strcpy(r.system_name, text): a text
\* of 100 or more characters runs on into test_type, which then holds the
\* characters from the 101st on, then into test_result and active;
\* system_name reads up to the terminator
CopySystemName(r, text, copy) ==
    IF Len(text) <= NAME_FIELD_MAX
    THEN [r EXCEPT !.system_name = text]
    ELSE [r EXCEPT !.system_name = text,
                   !.test_type = SubSeq(text, TYPE_OFFSET + 1, Len(text)),
                   !.test_result = Overrun(@, RESULT_OFFSET, text, copy),
                   !.active = Overrun(@, ACTIVE_OFFSET, text, copy)]

\* the record as its fields read after strcpy(r.test_type, text) for a text
\* that fits: a system_name that fills its field without a terminator
\* reads on into the new test_type
CopyTestType(r, text) ==
    [r EXCEPT !.test_type = text,
              !.system_name = IF Len(@) > NAME_FIELD_MAX
                              THEN SubSeq(@, 1, NAME_FIELD_MAX + 1) \o text
                              ELSE @]

\* db.count-- after a failed save: the table without its last element
AddRollback_Keep(appended) == appended
AddRollback(appended) == SubSeq(appended, 1, Len(appended) - 1)

AddNewRecord(names, types, choice, can_open, overflow) ==
    /\ pc = "main"
    /\ IF AddIsFull(records)
       THEN /\ UNCHANGED <<records, next_id, disk, allocs, pc>>
            /\ last' = Done("add", "full")
       ELSE IF overflow = "trap"
       THEN /\ allocs < MaxAllocs
            /\ pc' = "trapped"
            /\ last' = Done("add", "trapped")
            /\ UNCHANGED <<records, next_id, disk, allocs>>
       ELSE LET name == get_valid_input(names, "system_name", 0)
                type == get_valid_input(types, "test_type", 0)
                named(copy) ==
                    CopySystemName([ZeroRecord EXCEPT !.test_id = next_id,
                                                      !.active = 1],
                                   trim_string(name.buffer), copy)
                added(copy) ==
                    [CopyTestType(named(copy), trim_string(type.buffer))
                        EXCEPT !.test_result = ResultOfChoice(choice)]
            IN  /\ allocs < MaxAllocs
                /\ allocs' = allocs + 1
                /\ next_id' = IntInc(next_id)
                \* the names of the model end inside the record and the
                \* test types fit the field
                /\ Len(trim_string(name.buffer)) < RECORD_END
                /\ Len(trim_string(type.buffer)) <= NAME_FIELD_MAX
                /\ \E copy \in CopyOutcomes(trim_string(name.buffer)) :
                      LET new_record == added(copy) IN
                      IF name.ok /\ copy = "trap"
                      THEN /\ UNCHANGED <<records, disk>>
                           /\ pc' = "trapped"
                           /\ last' = Done("add", "trapped")
                      ELSE /\ IF ~name.ok \/ ~type.ok \/ choice = -1
                              THEN /\ UNCHANGED <<records, disk>>
                                   /\ last' = Done("add", "cancelled")
                              ELSE /\ save_database(Append(records, new_record),
                                                    can_open)
                                   /\ IF can_open
                                      THEN /\ records' =
                                                  Append(records, new_record)
                                           /\ last' = Done("add", "saved")
                                      ELSE /\ records' =
                                                  AddRollback(Append(records,
                                                                     new_record))
                                           /\ last' = Done("add", "save_failed")
                           /\ pc' = pc
    /\ UNCHANGED <<filename, session>>
    /\ found' = NoSearch

(***************************************************************************)
(* delete_record(test_id, soft_delete), as called from the update menu     *)
(* (soft delete) and from recovery_data (permanent delete).  `answer` is   *)
(* what get_yes_no returns for the confirmation prompt.                    *)
(***************************************************************************)
DeleteOp(soft_delete) ==
    IF soft_delete THEN "soft_delete" ELSE "permanent_delete"

\* if (soft_delete && !record->active)
AlreadyDeleted_Off(soft_delete, record) == FALSE
AlreadyDeleted(soft_delete, record) == soft_delete /\ record.active = 0

\* record->active = 0
SoftDeleted_Removed(recs, index) ==
    [i \in 1..(Len(recs) - 1) |-> IF i < index THEN recs[i] ELSE recs[i + 1]]
SoftDeleted(recs, index) == [recs EXCEPT ![index].active = 0]

\* if (!soft_delete && record->active)
MustSoftDeleteFirst_Off(soft_delete, record) == FALSE
MustSoftDeleteFirst(soft_delete, record) == ~soft_delete /\ record.active # 0

delete_record(test_id, soft_delete, answer, can_open) ==
    LET index == find_record_by_id(records, test_id)
        op    == DeleteOp(soft_delete)
    IN  IF index = 0
        THEN /\ UNCHANGED <<records, disk>>
             /\ last' = Done(op, "not_found")
        ELSE IF AlreadyDeleted(soft_delete, records[index])
        THEN /\ UNCHANGED <<records, disk>>
             /\ last' = Done(op, "already_deleted")
        ELSE IF MustSoftDeleteFirst(soft_delete, records[index])
        THEN /\ UNCHANGED <<records, disk>>
             /\ last' = Done(op, "not_soft_deleted")
        ELSE IF ~answer
        THEN /\ UNCHANGED <<records, disk>>
             /\ last' = Done(op, "cancelled")
        ELSE IF soft_delete
        THEN /\ save_database(SoftDeleted(records, index), can_open)
             /\ IF can_open
                THEN /\ records' = SoftDeleted(records, index)
                     /\ last' = Done(op, "saved")
                ELSE /\ records' = [records EXCEPT ![index].active = 1]
                     /\ last' = Done(op, "save_failed")
        ELSE /\ save_database(RemoveAt(records, index), can_open)
             /\ records' = RemoveAt(records, index)
             /\ last' = Done(op, IF can_open THEN "saved" ELSE "save_failed")

\* delete_record called with any TestID and either mode
DeleteRecordCall(test_id, soft_delete, answer, can_open) ==
    /\ pc = "main"
    /\ delete_record(test_id, soft_delete, answer, can_open)
    /\ UNCHANGED <<next_id, filename, pc, session, allocs>>
    /\ found' = NoSearch

(***************************************************************************)
(* update_record / update_record_by_id: the action menu and the edit loop  *)
(***************************************************************************)
\* if (index == -1 || !db.records[index].active)
UpdateRejects_ActiveOrNot(recs, index) == index = 0
UpdateRejects(recs, index) == index = 0 \/ recs[index].active = 0

\* update_record_by_id up to the entry of the edit loop
update_record_by_id(test_id, action, answer, can_open) ==
    LET index == find_record_by_id(records, test_id)
    IN  IF UpdateRejects(records, index)
        THEN /\ UNCHANGED <<records, disk, pc, session>>
             /\ last' = Done("update", "not_found")
        ELSE IF action = -1 \/ action = 3
        THEN /\ UNCHANGED <<records, disk, pc, session>>
             /\ last' = Done("update", "returned")
        ELSE IF action = 2
        THEN /\ delete_record(test_id, TRUE, answer, can_open)
             /\ UNCHANGED <<pc, session>>
        ELSE /\ pc' = "editing"
             /\ session' = [index  |-> index,
                            backup |-> records[index],
                            start  |-> records]
             /\ last' = Done("update", "editing")
             /\ UNCHANGED <<records, disk>>

\* update_record: a TestID is typed and update_record_by_id is called
UpdateRecordById(test_id, action, answer, can_open) ==
    /\ pc = "main"
    /\ update_record_by_id(test_id, action, answer, can_open)
    /\ UNCHANGED <<next_id, filename, allocs>>
    /\ found' = NoSearch

\* field_choice 1: SystemName
EditSystemName(entries) ==
    /\ pc = "editing"
    /\ LET in == get_valid_input(entries, "system_name", 0)
       IN  \* the names of the model end inside the record
           /\ Len(trim_string(in.buffer)) < RECORD_END
           /\ \E copy \in CopyOutcomes(trim_string(in.buffer)) :
             IF in.ok /\ copy = "trap"
             THEN /\ records' = records
                  /\ pc' = "trapped"
                  /\ last' = Done("update", "trapped")
             ELSE /\ IF in.ok
                     THEN /\ records' =
                               [records EXCEPT ![session.index] =
                                   CopySystemName(@, trim_string(in.buffer),
                                                  copy)]
                          /\ last' = Done("update", "edited")
                     ELSE /\ records' = records
                          /\ last' = Done("update", "edit_cancelled")
                  /\ pc' = pc
    /\ UNCHANGED <<next_id, filename, disk, session, allocs>>
    /\ found' = NoSearch

\* field_choice 2: TestType
EditTestType(entries) ==
    /\ pc = "editing"
    /\ LET in == get_valid_input(entries, "test_type", 0)
       IN  \* the test types of the model fit the field
           /\ Len(trim_string(in.buffer)) <= NAME_FIELD_MAX
           /\ IF in.ok
              THEN /\ records' =
                        [records EXCEPT ![session.index] =
                            CopyTestType(@, trim_string(in.buffer))]
                   /\ last' = Done("update", "edited")
              ELSE /\ records' = records
                   /\ last' = Done("update", "edit_cancelled")
    /\ UNCHANGED <<next_id, filename, disk, pc, session, allocs>>
    /\ found' = NoSearch

\* field_choice 3: TestResult
EditTestResult(choice) ==
    /\ pc = "editing"
    /\ IF choice # -1
       THEN /\ records' = [records EXCEPT ![session.index].test_result =
                                              ResultOfChoice(choice)]
            /\ last' = Done("update", "edited")
       ELSE /\ records' = records
            /\ last' = Done("update", "edit_cancelled")
    /\ UNCHANGED <<next_id, filename, disk, pc, session, allocs>>
    /\ found' = NoSearch

\* get_menu_choice(1, 5) returned -1: the loop goes round
AbandonEditMenu ==
    /\ pc = "editing"
    /\ last' = Done("update", "menu_abandoned")
    /\ UNCHANGED <<records, next_id, filename, disk, pc, session, allocs>>
    /\ found' = NoSearch

\* *record = backup
RestoreBackup_Keep(recs, s) == recs
RestoreBackup(recs, s) == [recs EXCEPT ![s.index] = s.backup]

\* field_choice 4: Save changes
SaveChanges(can_open) ==
    /\ pc = "editing"
    /\ save_database(records, can_open)
    /\ IF can_open
       THEN /\ records' = records
            /\ last' = Done("update", "saved")
       ELSE /\ records' = RestoreBackup(records, session)
            /\ last' = Done("update", "save_failed")
    /\ pc' = "main"
    /\ session' = NoSession
    /\ UNCHANGED <<next_id, filename, allocs>>
    /\ found' = NoSearch

\* field_choice 5: Cancel, confirmed or not by get_yes_no
CancelChanges(answer) ==
    /\ pc = "editing"
    /\ IF answer
       THEN /\ records' = RestoreBackup(records, session)
            /\ pc' = "main"
            /\ session' = NoSession
            /\ last' = Done("update", "cancelled")
       ELSE /\ UNCHANGED <<records, pc, session>>
            /\ last' = Done("update", "cancel_declined")
    /\ UNCHANGED <<next_id, filename, disk, allocs>>
    /\ found' = NoSearch

(***************************************************************************)
(* recovery_data: recover a soft-deleted record (action 1) or delete it    *)
(* permanently after the TestID was typed again (action 2).                *)
(***************************************************************************)
\* what is typed at "Type the TestID again": the ID, or the ID with a
\* leading zero
RetypedInputs(test_id) == {FormatInt(test_id), <<"0">> \o FormatInt(test_id)}

\* record->active = 1
\* (the flag of the first record is set instead)
Recovered_First(recs, index) == [recs EXCEPT ![1].active = 1]
Recovered(recs, index) == [recs EXCEPT ![index].active = 1]

\* record->active = 0 after the failed save
RecoverRollback_Keep(recs, index) == recs
RecoverRollback(recs, index) == [recs EXCEPT ![index].active = 0]

RecoveryData(action, test_id, retyped, answer, can_open) ==
    /\ pc = "main"
    /\ LET index == find_record_by_id(records, test_id)
       IN  IF \A i \in DOMAIN records : records[i].active # 0
           THEN /\ UNCHANGED <<records, disk>>
                /\ last' = Done("recovery", "none_deleted")
           ELSE IF index = 0 \/ records[index].active # 0
           THEN /\ UNCHANGED <<records, disk>>
                /\ last' = Done("recovery", "not_found")
           ELSE IF action = 1
           THEN IF ~answer
                THEN /\ UNCHANGED <<records, disk>>
                     /\ last' = Done("recover", "cancelled")
                ELSE /\ save_database(Recovered(records, index), can_open)
                     /\ IF can_open
                        THEN /\ records' = Recovered(records, index)
                             /\ last' = Done("recover", "saved")
                        ELSE /\ records' =
                                  RecoverRollback(Recovered(records, index),
                                                  index)
                             /\ last' = Done("recover", "save_failed")
           ELSE IF trim_string(retyped) # FormatInt(test_id)
           THEN /\ UNCHANGED <<records, disk>>
                /\ last' = Done("permanent_delete", "mismatch")
           ELSE delete_record(test_id, FALSE, answer, can_open)
    /\ UNCHANGED <<next_id, filename, pc, session, allocs>>
    /\ found' = NoSearch

(***************************************************************************)
(* search_records: the term is read, the active records are filtered, and  *)
(* the action menu leads to update_record_by_id or to a soft delete of a   *)
(* record among the results.                                               *)
(***************************************************************************)
MIN_SEARCH_LENGTH == 3

Followup(action, update_action, answer, can_open) ==
    [action |-> action, update_action |-> update_action,
     answer |-> answer, can_open |-> can_open]

\* the action menu of search_records: return; update, which shows the menu
\* of update_record_by_id (edit or return); delete, declined or confirmed
\* with fopen succeeding or failing.  The menu is followed further for one
\* of the search terms only.
SearchInputs(entries) ==
    IF entries = SearchApi
    THEN {Followup(3, 3, TRUE, TRUE),
          Followup(1, 1, TRUE, TRUE), Followup(1, 3, TRUE, TRUE),
          Followup(2, 3, FALSE, TRUE), Followup(2, 3, TRUE, TRUE),
          Followup(2, 3, TRUE, FALSE)}
    ELSE {Followup(3, 3, TRUE, TRUE)}

\* the part of search_records behind the display of the results
search_action(results, action, test_id, update_action, answer, can_open) ==
    IF action = -1 \/ action = 3
    THEN /\ last' = Done("search", "results")
         /\ UNCHANGED <<records, disk, pc, session>>
    ELSE IF \A i \in DOMAIN results : results[i].test_id # test_id
    THEN /\ last' = Done("search", "not_in_results")
         /\ UNCHANGED <<records, disk, pc, session>>
    ELSE IF action = 1
    THEN update_record_by_id(test_id, update_action, answer, can_open)
    ELSE /\ delete_record(test_id, TRUE, answer, can_open)
         /\ UNCHANGED <<pc, session>>

SearchRecords(entries) ==
    /\ pc = "main"
    /\ \E in \in {get_valid_input(entries, "none", 0)} :
          IF ~in.ok
          THEN /\ found' = NoSearch
               /\ last' = Done("search", "cancelled")
               /\ UNCHANGED <<records, disk, pc, session>>
          ELSE IF Len(trim_string(in.buffer)) < MIN_SEARCH_LENGTH
          THEN /\ found' = Searched(trim_string(in.buffer), <<>>)
               /\ last' = Done("search", "rejected")
               /\ UNCHANGED <<records, disk, pc, session>>
          ELSE \E results \in {search_results(records, in.buffer)} :
                 /\ found' = Searched(trim_string(in.buffer), results)
                 /\ IF results = <<>>
                    THEN /\ last' = Done("search", "no_results")
                         /\ UNCHANGED <<records, disk, pc, session>>
                    ELSE \E s \in SearchInputs(entries) :
                         \E test_id \in IF s.action = 3 THEN {AbsentId}
                                        ELSE IdInputs(records) :
                            search_action(results, s.action, test_id,
                                          s.update_action, s.answer,
                                          s.can_open)
    /\ UNCHANGED <<next_id, filename, allocs>>

(***************************************************************************)
(* The program: one step is one operation chosen at a menu.                *)
(***************************************************************************)
\* An input that the code does not read on the path taken (a prompt that is
\* never shown, a file that is never opened) is fixed to one value, so that
\* each run of an operation is enumerated once.
Inputs(names, types, choice, can_open) ==
    [names |-> names, types |-> types, choice |-> choice, can_open |-> can_open]

\* add_new_record: the name is rejected; the type is rejected; the result
\* menu is abandoned; all three are accepted and fopen succeeds or fails
AddInputs ==
    {Inputs(NamesRejected, TypesAccepted, 3, TRUE),
     Inputs(NamesAccepted, TypesRejected, 3, TRUE),
     Inputs(NamesAccepted, TypesAccepted, -1, TRUE),
     Inputs(NamesAccepted, TypesAccepted, 3, TRUE),
     Inputs(NamesAccepted, TypesAccepted, 3, FALSE)}

Choices(action, answer, can_open) ==
    [action |-> action, answer |-> answer, can_open |-> can_open]

\* update_record_by_id: edit; return; soft delete declined, or confirmed
\* with fopen succeeding or failing
UpdateInputs ==
    {Choices(1, TRUE, TRUE), Choices(3, TRUE, TRUE), Choices(2, FALSE, TRUE),
     Choices(2, TRUE, TRUE), Choices(2, TRUE, FALSE)}

\* recovery_data: recover declined, or confirmed with fopen succeeding or
\* failing; permanent delete likewise
RecoveryInputs ==
    {Choices(1, FALSE, TRUE), Choices(1, TRUE, TRUE), Choices(1, TRUE, FALSE),
     Choices(2, FALSE, TRUE), Choices(2, TRUE, TRUE), Choices(2, TRUE, FALSE)}

Next ==
    \/ \E path \in Paths : OpenDatabase(path) /\ UNCHANGED call
    \/ \E name \in CreateNames, can_open \in BOOLEAN :
          CreateDatabase(name, can_open) /\ UNCHANGED call
    \/ \E s \in AddInputs, overflow \in OverflowOutcomes(next_id) :
          /\ AddNewRecord(s.names, s.types, s.choice, s.can_open, overflow)
          /\ UNCHANGED call
    \/ \E test_id \in IdInputs(records), s \in UpdateInputs :
          /\ UpdateRecordById(test_id, s.action, s.answer, s.can_open)
          /\ UNCHANGED call
    \/ \E entries \in NameEntries : EditSystemName(entries) /\ UNCHANGED call
    \/ \E entries \in TypeEntries : EditTestType(entries) /\ UNCHANGED call
    \/ \E choice \in ResultChoices : EditTestResult(choice) /\ UNCHANGED call
    \/ \E can_open \in BOOLEAN : SaveChanges(can_open) /\ UNCHANGED call
    \/ \E answer \in BOOLEAN : CancelChanges(answer) /\ UNCHANGED call
    \/ \E test_id \in IdInputs(records), s \in RecoveryInputs :
          /\ \/ RecoveryData(s.action, test_id, FormatInt(test_id),
                             s.answer, s.can_open)
             \/ /\ s = Choices(2, TRUE, TRUE)
                /\ \E retyped \in RetypedInputs(test_id) :
                      RecoveryData(2, test_id, retyped, TRUE, TRUE)
          /\ UNCHANGED call
    \/ \E entries \in SearchEntries : SearchRecords(entries) /\ UNCHANGED call

Spec == Init /\ [][Next]_vars

(***************************************************************************)
(* The delete and recovery functions called on their own, with every       *)
(* TestID and mode: delete_record checks its arguments itself, and the     *)
(* menus above never pass it a record in the wrong state.                  *)
(***************************************************************************)
\* declined, or confirmed with fopen succeeding or failing
DeleteInputs ==
    {Choices(0, FALSE, TRUE), Choices(0, TRUE, TRUE), Choices(0, TRUE, FALSE)}

NextCalls ==
    \/ \E path \in Paths : OpenDatabase(path) /\ UNCHANGED call
    \/ \E test_id \in IdInputs(records), soft_delete \in BOOLEAN,
          s \in DeleteInputs :
          /\ DeleteRecordCall(test_id, soft_delete, s.answer, s.can_open)
          /\ UNCHANGED call
    \/ \E test_id \in IdInputs(records), s \in RecoveryInputs :
          /\ RecoveryData(s.action, test_id, FormatInt(test_id),
                          s.answer, s.can_open)
          /\ UNCHANGED call

SpecCalls == Init /\ [][NextCalls]_vars

(***************************************************************************)
(* The program with change_database: a database is bound at start and is   *)
(* changed from the main menu to another file or to a new one; records are *)
(* added in between.                                                       *)
(***************************************************************************)
InitRebind ==
    /\ records = <<>>
    /\ next_id = 0
    /\ filename = ""
    /\ disk \in {[p \in Paths |-> IF p = "a.csv" THEN f ELSE g] :
                    f \in {FileGood, FileMalformed, FileBadHeader},
                    g \in OtherFiles}
    /\ pc = "select"
    /\ session = NoSession
    /\ last = Done("start", "none")
    /\ allocs = 0
    /\ found = NoSearch
    /\ call = NoCall

\* what was answered and chosen in change_database
Attempt(kind, answer, target) ==
    [fn |-> "change_database", kind |-> kind, answer |-> answer,
     target |-> target]

NextRebind ==
    \/ \E path \in Paths : OpenDatabase(path) /\ call' = NoCall
    \/ \E name \in CreateNames, can_open \in BOOLEAN :
          CreateDatabase(name, can_open) /\ call' = NoCall
    \/ \E s \in AddInputs, overflow \in OverflowOutcomes(next_id) :
          /\ AddNewRecord(s.names, s.types, s.choice, s.can_open, overflow)
          /\ call' = NoCall
    \/ \E answer \in BOOLEAN, path \in Paths :
          /\ ChangeDatabaseOpen(answer, path)
          /\ call' = Attempt("open", answer, path)
    \/ \E name \in CreateNames, can_open \in BOOLEAN :
          /\ ChangeDatabaseCreate(name, can_open)
          /\ call' = Attempt("create", TRUE, FullFilename(name))
    \/ ChangeDatabaseNone /\ call' = Attempt("none", TRUE, "")

SpecRebind == InitRebind /\ [][NextRebind]_vars

(***************************************************************************)
(* The codec on its own: load_database on a file with the required header, *)
(* save_database on the table it gave, and load_database again.            *)
(***************************************************************************)
\* call after select_file(path): when load_database ran, the file it read,
\* the file the table came from before any save (first), and that the
\* table was not saved since
NoteLoad(path) ==
    call' = IF last'.outcome # "loaded" THEN call
            ELSE [fn    |-> "load_database",
                  file  |-> disk[path],
                  first |-> IF call.fn = "load_database" /\ call.saved
                            THEN call.first ELSE disk[path],
                  saved |-> FALSE]

\* save_database called on the bound store
SaveDatabaseCall(can_open) ==
    /\ pc = "main"
    /\ save_database(records, can_open)
    /\ last' = Done("save", IF can_open THEN "saved" ELSE "save_failed")
    /\ call' = IF can_open /\ call.fn = "load_database"
               THEN [call EXCEPT !.saved = TRUE] ELSE call
    /\ UNCHANGED <<records, next_id, filename, pc, session, allocs>>
    /\ found' = NoSearch

InitCodec ==
    /\ records = <<>>
    /\ next_id = 0
    /\ filename = ""
    /\ disk \in {[p \in Paths |-> IF p = "a.csv" THEN f ELSE Missing] :
                    f \in CodecFiles}
    /\ pc = "select"
    /\ session = NoSession
    /\ last = Done("start", "none")
    /\ allocs = 0
    /\ found = NoSearch
    /\ call = NoCall

NextCodec ==
    \/ \E path \in Paths : OpenDatabase(path) /\ NoteLoad(path)
    \/ \E can_open \in BOOLEAN : SaveDatabaseCall(can_open)
    \/ \E path \in Paths : ChangeDatabaseOpen(TRUE, path) /\ NoteLoad(path)

SpecCodec == InitCodec /\ [][NextCodec]_vars

(***************************************************************************)
(* The validators and the result mapping on their own, called as           *)
(* test_input_validation and run_e2e_tests call them.  malloc is taken to  *)
(* succeed.                                                                *)
(***************************************************************************)
\* a const char * argument: NULL, or a pointer to a text
NullPtr == [null |-> TRUE, text |-> <<>>]
Ptr(text) == [null |-> FALSE, text |-> text]

\* every text of up to MaxLen characters over a letter, two digits, the
\* space, a character allowed in names only, the delimiter and a sign
Alphabet == {"a", "7", "0", " ", "-", ",", "+"}
ShortTexts == UNION {[1..n -> Alphabet] : n \in 0..MaxLen}

\* the printable characters that are neither letters nor digits
PunctSeq ==
    <<"!", "\"", "#", "$", "%", "&", "'", "(", ")", "*", "+", ",", "-", ".",
      "/", ":", ";", "<", "=", ">", "?", "@", "[", "\\", "]", "^", "_",
      "{", "|", "}", "~", " ", "\t">>
AllChars ==
    Range(PunctSeq) \cup Range(DigitSeq) \cup Range(UpperSeq)
        \cup Range(LowerSeq)

\* a text of three characters, and of five between spaces, with each
\* character in the middle; numbers beyond the range of int and of long
CharTexts ==
    {<<"a", c, "B">> : c \in AllChars}
        \cup {<<" ", "1", c, "2", " ">> : c \in AllChars}
LongNumbers ==
    {FormatInt(INT_MAX), FormatInt(INT_MAX) \o <<"0">>,
     <<"-">> \o FormatInt(INT_MAX) \o <<"0">>,
     FormatInt(INT_MAX) \o FormatInt(INT_MAX) \o FormatInt(INT_MAX)}
\* texts near the names of the results
NearResults ==
    {TextUnknown, <<"I", "n", "v", "a", "l", "i", "d">>,
     SubSeq(TextFailed, 1, 5), TextFailed \o <<"d">>, <<" ">> \o TextFailed,
     TextPassed \o <<" ">>, TextFailed, LowerText(TextPending), TextSuccess}

TextArguments ==
    {NullPtr} \cup {Ptr(t) : t \in ShortTexts \cup CharTexts \cup LongNumbers
                                  \cup NearResults}

\* a TestResult (the four values, INVALID_RESULT, a value outside the
\* enum) and the positions of its name that are written in upper case
ResultArguments ==
    {[result |-> r, upper |-> u] :
        r \in {FAILED, PASSED, PENDING, SUCCESS, INVALID_RESULT, -999},
        u \in SUBSET (1..Len(TextPending))}

\* the text with the letters at the positions in upper in upper case and
\* the other letters in lower case
Recase(text, upper) ==
    [i \in DOMAIN text |->
        IF i \in upper THEN toupper(text[i]) ELSE tolower(text[i])]

\* validate_system_name(input): the value returned and the text at input
\* after the call (the function works on a copy)
ValidateSystemName ==
    /\ call.fn = "none" /\ call.kind = "text"
    /\ call' = [fn    |-> "validate_system_name",
                kind  |-> "text",
                arg   |-> call.arg,
                ret   |-> ~call.arg.null /\ validate_system_name(call.arg.text),
                after |-> call.arg.text]
    /\ UNCHANGED <<records, next_id, filename, disk, pc, session, last,
                   allocs, found>>

ValidateTestType ==
    /\ call.fn = "none" /\ call.kind = "text"
    /\ call' = [fn    |-> "validate_test_type",
                kind  |-> "text",
                arg   |-> call.arg,
                ret   |-> ~call.arg.null /\ validate_test_type(call.arg.text),
                after |-> call.arg.text]
    /\ UNCHANGED <<records, next_id, filename, disk, pc, session, last,
                   allocs, found>>

ValidateTestId ==
    /\ call.fn = "none" /\ call.kind = "text"
    /\ call' = [fn    |-> "validate_test_id",
                kind  |-> "text",
                arg   |-> call.arg,
                ret   |-> ~call.arg.null /\ validate_test_id(call.arg.text),
                after |-> call.arg.text]
    /\ UNCHANGED <<records, next_id, filename, disk, pc, session, last,
                   allocs, found>>

\* string_to_test_result(str)
StringToTestResult ==
    /\ call.fn = "none" /\ call.kind = "text"
    /\ call' = [fn   |-> "string_to_test_result",
                kind |-> "text",
                arg  |-> call.arg,
                ret  |-> IF call.arg.null THEN INVALID_RESULT
                         ELSE string_to_test_result(call.arg.text)]
    /\ UNCHANGED <<records, next_id, filename, disk, pc, session, last,
                   allocs, found>>

\* string_to_test_result on the text that test_result_to_string gives for
\* a TestResult, written in some letter case
ResultRoundTrip ==
    /\ call.fn = "none" /\ call.kind = "result"
    /\ call' = [fn   |-> "result_round_trip",
                kind |-> "result",
                arg  |-> call.arg,
                text |-> Recase(test_result_to_string(call.arg.result),
                                call.arg.upper),
                ret  |-> string_to_test_result(
                            Recase(test_result_to_string(call.arg.result),
                                   call.arg.upper))]
    /\ UNCHANGED <<records, next_id, filename, disk, pc, session, last,
                   allocs, found>>

InitLib ==
    /\ records = <<>>
    /\ next_id = 0
    /\ filename = ""
    /\ disk = [p \in Paths |-> Missing]
    /\ pc = "select"
    /\ session = NoSession
    /\ last = Done("start", "none")
    /\ allocs = 0
    /\ found = NoSearch
    /\ call \in {Argument("text", a) : a \in TextArguments}
                \cup {Argument("result", a) : a \in ResultArguments}

NextLib ==
    \/ ValidateSystemName
    \/ ValidateTestType
    \/ ValidateTestId
    \/ StringToTestResult
    \/ ResultRoundTrip

SpecLib == InitLib /\ [][NextLib]_vars

(***************************************************************************)
(* get_valid_input on its own, and the operations that store what it       *)
(* returned: add_new_record and the edit loop of update_record_by_id.      *)
(***************************************************************************)
\* what can wait in the input at a prompt: a failed read, an empty line, a
\* line of one space, a text that is too short, a text that is a name but
\* no type, and a text that is both
EntryKinds ==
    {ReadError, Line(<<>>), Line(<<" ">>), Line(<<"a", "b">>),
     Line(<<" ", "a", "-", "c", " ">>), Line(<<"a", "b", "c">>)}
EntryLists == UNION {[1..n -> EntryKinds] : n \in 0..MaxEntries}

\* lines that get_valid_input reads whole into its 256-byte buffer: a name
\* of 100 letters, a name of 99 letters between two spaces, and a name of
\* 204 letters, whose terminator lands in the active flag
LongName == [i \in 1..(NAME_FIELD_MAX + 1) |-> "a"]
FullName == [i \in 1..NAME_FIELD_MAX |-> "a"]
OverName == [i \in 1..ACTIVE_OFFSET |-> "a"]
NamesLong == <<Line(LongName)>>
NamesFull == <<Line(<<" ">> \o FullName \o <<" ">>)>>
NamesOver == <<Line(OverName)>>
LongNameEntries == {NamesLong, NamesFull, NamesOver}
LongAddInputs ==
    {Inputs(NamesLong, TypesAccepted, 3, TRUE),
     Inputs(NamesFull, TypesAccepted, 3, TRUE)}

InputArguments ==
    {[entries |-> e, validator |-> v] :
        e \in EntryLists, v \in {"system_name", "test_type", "none"}}

\* get_valid_input(buffer, max_len, validator, prompt): what it returned,
\* the buffer and the number of attempts it counted
GetValidInputCall ==
    /\ call.fn = "none" /\ call.kind = "entries"
    /\ call' = [fn   |-> "get_valid_input",
                kind |-> "entries",
                arg  |-> call.arg,
                ret  |-> get_valid_input(call.arg.entries,
                                         call.arg.validator, 0)]
    /\ UNCHANGED <<records, next_id, filename, disk, pc, session, last,
                   allocs, found>>

InitInput ==
    /\ records = <<>>
    /\ next_id = 0
    /\ filename = ""
    /\ disk = [p \in Paths |-> IF p = "a.csv" THEN FileGood ELSE Missing]
    /\ pc = "select"
    /\ session = NoSession
    /\ last = Done("start", "none")
    /\ allocs = 0
    /\ found = NoSearch
    /\ call \in {NoCall} \cup {Argument("entries", a) : a \in InputArguments}

NextInput ==
    \/ GetValidInputCall
    \/ \E path \in Paths : OpenDatabase(path) /\ call' = NoCall
    \/ \E s \in AddInputs \cup LongAddInputs,
          overflow \in OverflowOutcomes(next_id) :
          /\ AddNewRecord(s.names, s.types, s.choice, s.can_open, overflow)
          /\ UNCHANGED call
    \/ \E test_id \in IdInputs(records), s \in UpdateInputs :
          /\ UpdateRecordById(test_id, s.action, s.answer, s.can_open)
          /\ UNCHANGED call
    \/ \E entries \in NameEntries \cup LongNameEntries :
          EditSystemName(entries) /\ UNCHANGED call
    \/ \E entries \in TypeEntries : EditTestType(entries) /\ UNCHANGED call
    \/ \E choice \in ResultChoices : EditTestResult(choice) /\ UNCHANGED call
    \/ \E can_open \in BOOLEAN : SaveChanges(can_open) /\ UNCHANGED call
    \/ \E answer \in BOOLEAN : CancelChanges(answer) /\ UNCHANGED call

SpecInput == InitInput /\ [][NextInput]_vars

(***************************************************************************)
(* find_record_by_id called on its own, on the tables that loading and     *)
(* adding produce and on the empty table of an unbound database.           *)
(***************************************************************************)
\* a TestID equal to the largest int: load_database computes max_id + 1
FileMaxId ==
    DataFile(<< <<FormatInt(INT_MAX), NameApi, TypeUnit, TextPassed,
                  <<"1">>>> >>)

FindFiles == {FileGood, FileDuplicate, FileMaxId, HeaderOnly}

\* the int arguments of find_record_by_id
FindIds == {INT_MIN, -1, 0, 1, 2, 3, AbsentId, INT_MAX}

\* find_record_by_id(test_id) and the database it leaves
FindRecordById ==
    /\ call.fn = "none" /\ call.kind = "id"
    /\ call' = [fn   |-> "find_record_by_id",
                kind |-> "id",
                arg  |-> call.arg,
                ret  |-> find_record_by_id(records, call.arg)]
    /\ UNCHANGED <<records, next_id, filename, disk, pc, session, last,
                   allocs, found>>

InitFind ==
    /\ records = <<>>
    /\ next_id = 0
    /\ filename = ""
    /\ disk \in {[p \in Paths |-> IF p = "a.csv" THEN f ELSE Missing] :
                    f \in FindFiles}
    /\ pc = "select"
    /\ session = NoSession
    /\ last = Done("start", "none")
    /\ allocs = 0
    /\ found = NoSearch
    /\ call \in {Argument("id", id) : id \in FindIds}

NextFind ==
    \/ FindRecordById
    \/ \E path \in Paths : OpenDatabase(path) /\ UNCHANGED call
    \/ \E s \in AddInputs, overflow \in OverflowOutcomes(next_id) :
          /\ AddNewRecord(s.names, s.types, s.choice, s.can_open, overflow)
          /\ UNCHANGED call

SpecFind == InitFind /\ [][NextFind]_vars

(***************************************************************************)
(* The edit loop of update_record_by_id with every way round it and out of *)
(* it; call keeps what was typed at "Discard all changes?".                *)
(***************************************************************************)
Asked(entries) == [fn |-> "get_yes_no", kind |-> "entries", arg |-> entries]

\* what is typed at a confirmation prompt
YesNoEntries ==
    {<<Line(<<"y">>)>>, <<Line(<<" ", "Y", "e", "s">>)>>, <<Line(<<"n">>)>>,
     <<Line(<<>>), Line(<<"y">>)>>, <<Line(<<"o", "k">>), Line(<<"y">>)>>,
     <<ReadError, Line(<<"y">>)>>, <<>>}

NextSession ==
    \/ \E path \in Paths : OpenDatabase(path) /\ call' = NoCall
    \/ \E test_id \in IdInputs(records), s \in UpdateInputs :
          /\ UpdateRecordById(test_id, s.action, s.answer, s.can_open)
          /\ call' = NoCall
    \/ \E entries \in NameEntries : EditSystemName(entries) /\ call' = NoCall
    \/ \E entries \in TypeEntries : EditTestType(entries) /\ call' = NoCall
    \/ \E choice \in ResultChoices : EditTestResult(choice) /\ call' = NoCall
    \/ AbandonEditMenu /\ call' = NoCall
    \/ \E can_open \in BOOLEAN : SaveChanges(can_open) /\ call' = NoCall
    \/ \E entries \in YesNoEntries :
          CancelChanges(get_yes_no(entries, FALSE, 1)) /\ call' = Asked(entries)

InitSession == InitInput /\ call = NoCall

SpecSession == InitSession /\ [][NextSession]_vars

(***************************************************************************)
(* Soft delete, recover and permanent delete with what is typed at their   *)
(* confirmation prompts; call keeps the lines typed, the TestID selected   *)
(* and the TestID typed again.                                             *)
(***************************************************************************)
Confirmed(entries, test_id, retyped) ==
    [fn |-> "get_yes_no", kind |-> "entries", arg |-> entries,
     test_id |-> test_id, retyped |-> retyped]

\* a line of 14 characters, read by two calls of fgets
LineDefinitelyNot ==
    Line(<<"d", "e", "f", "i", "n", "i", "t", "e", "l", "y", " ", "n", "o",
           "t">>)

\* what is typed at a confirmation prompt with three attempts: yes at
\* once, no, yes on the third attempt, yes only as a fourth line, no after
\* a failed read, nothing, and a line longer than the buffer
ConfirmEntries ==
    {<<Line(<<"y">>)>>, <<Line(<<" ", "Y", "e", "s">>)>>, <<Line(<<"n">>)>>,
     <<Line(<<>>), Line(<<"o", "k">>), Line(<<"y">>)>>,
     <<Line(<<>>), ReadError, Line(<<"o", "k">>), Line(<<"y">>)>>,
     <<ReadError, Line(<<"n">>), Line(<<"y">>)>>,
     <<>>,
     <<LineDefinitelyNot>>}

\* what is typed at "Type the TestID again": the ID, the ID between
\* spaces, the ID behind a zero, another number
RetypedTexts(test_id) ==
    {FormatInt(test_id), <<" ">> \o FormatInt(test_id) \o <<" ">>,
     <<"0">> \o FormatInt(test_id), FormatInt(AbsentId)}

NextConfirm ==
    \/ \E path \in Paths : OpenDatabase(path) /\ call' = NoCall
    \/ \E test_id \in IdInputs(records), entries \in ConfirmEntries,
          can_open \in BOOLEAN :
          /\ UpdateRecordById(test_id, 2, get_yes_no(entries, FALSE, 3),
                              can_open)
          /\ call' = Confirmed(entries, test_id, <<>>)
    \/ \E test_id \in IdInputs(records), entries \in ConfirmEntries,
          can_open \in BOOLEAN :
          /\ RecoveryData(1, test_id, <<>>, get_yes_no(entries, FALSE, 3),
                          can_open)
          /\ call' = Confirmed(entries, test_id, <<>>)
    \/ \E test_id \in IdInputs(records), entries \in ConfirmEntries,
          can_open \in BOOLEAN :
          \E retyped \in RetypedTexts(test_id) :
             /\ RecoveryData(2, test_id, retyped,
                             get_yes_no(entries, FALSE, 3), can_open)
             /\ call' = Confirmed(entries, test_id, retyped)

SpecConfirm == InitSession /\ [][NextConfirm]_vars

(***************************************************************************)
(* Adding, deleting and loading the same file again: call keeps the        *)
(* TestIDs that the records of the table have carried so far.              *)
(***************************************************************************)
Carried(ids) == [fn |-> "none", kind |-> "carried", ids |-> ids]

\* the IDs of the table after the step are added to the IDs carried
NoteIds ==
    call' = Carried(call.ids \cup
                    {records'[i].test_id : i \in DOMAIN records'})

InitReuse ==
    /\ records = <<>>
    /\ next_id = 0
    /\ filename = ""
    /\ disk \in {[p \in Paths |-> IF p = "a.csv" THEN f ELSE Missing] :
                    f \in {FileGood, FileOverfull}}
    /\ pc = "select"
    /\ session = NoSession
    /\ last = Done("start", "none")
    /\ allocs = 0
    /\ found = NoSearch
    /\ call = Carried({})

NextReuse ==
    \/ \E path \in Paths : OpenDatabase(path) /\ NoteIds
    \/ \E path \in Paths : ChangeDatabaseOpen(TRUE, path) /\ NoteIds
    \/ \E s \in AddInputs, overflow \in OverflowOutcomes(next_id) :
          /\ AddNewRecord(s.names, s.types, s.choice, s.can_open, overflow)
          /\ NoteIds
    \/ \E test_id \in IdInputs(records), can_open \in BOOLEAN :
          UpdateRecordById(test_id, 2, TRUE, can_open) /\ NoteIds
    \/ \E test_id \in IdInputs(records), s \in RecoveryInputs :
          /\ RecoveryData(s.action, test_id, FormatInt(test_id),
                          s.answer, s.can_open)
          /\ NoteIds

SpecReuse == InitReuse /\ [][NextReuse]_vars

(***************************************************************************)
(* A soft delete and the recover that follows it: call keeps the table and *)
(* the backing file as they were before a committed soft delete of a       *)
(* record whose active was 1, until the next operation has run.            *)
(***************************************************************************)
\* a file whose only row spells the result in lower case
FileLowerCase ==
    DataFile(<< <<<<"1">>, NameWeb, TypeLoad, LowerText(TextFailed),
                  <<"1">>>> >>)

InverseFiles ==
    {FileGood, FileDuplicate, FileOverfull, FileFlagTwo, FileLowerCase}

\* kind "soft_deleted": the soft delete of test_id was committed last;
\* kind "recovered": the recover of the same test_id was committed right
\* after it.  table and file are db.records and the backing file before
\* the soft delete.
Before(kind, test_id, table, file) ==
    [fn |-> "none", kind |-> kind, test_id |-> test_id, table |-> table,
     file |-> file]

NoteSoftDelete(test_id) ==
    call' = IF /\ last' = Done("soft_delete", "saved")
               /\ records[find_record_by_id(records, test_id)].active = 1
            THEN Before("soft_deleted", test_id, records, disk[filename])
            ELSE NoCall

NoteRecover(test_id) ==
    call' = IF /\ last' = Done("recover", "saved")
               /\ call.kind = "soft_deleted"
               /\ call.test_id = test_id
            THEN [call EXCEPT !.kind = "recovered"]
            ELSE NoCall

InitInverse ==
    /\ records = <<>>
    /\ next_id = 0
    /\ filename = ""
    /\ disk \in {[p \in Paths |-> IF p = "a.csv" THEN f ELSE Missing] :
                    f \in InverseFiles}
    /\ pc = "select"
    /\ session = NoSession
    /\ last = Done("start", "none")
    /\ allocs = 0
    /\ found = NoSearch
    /\ call = NoCall

NextInverse ==
    \/ \E path \in Paths : OpenDatabase(path) /\ call' = NoCall
    \/ \E s \in AddInputs, overflow \in OverflowOutcomes(next_id) :
          /\ AddNewRecord(s.names, s.types, s.choice, s.can_open, overflow)
          /\ call' = NoCall
    \/ \E test_id \in IdInputs(records), s \in UpdateInputs :
          /\ s.action # 1
          /\ UpdateRecordById(test_id, s.action, s.answer, s.can_open)
          /\ NoteSoftDelete(test_id)
    \/ \E test_id \in IdInputs(records), s \in RecoveryInputs :
          /\ RecoveryData(s.action, test_id, FormatInt(test_id),
                          s.answer, s.can_open)
          /\ NoteRecover(test_id)

SpecInverse == InitInverse /\ [][NextInverse]_vars

(***************************************************************************)
(* The TestID prompts of update_record and recovery_data: the line is read *)
(* into char input_buffer[20], accepted by validate_test_id and converted  *)
(* with atoi.  call keeps the accepted text and the int it was looked up   *)
(* as.                                                                     *)
(***************************************************************************)
\* sizeof(input_buffer) - 1: the characters of a line one fgets stores
ID_INPUT == 19

\* a digit string without its leading zeros
RECURSIVE StripZeros(_)
StripZeros(d) ==
    IF d # <<>> /\ Head(d) = "0" THEN StripZeros(Tail(d)) ELSE d

\* whether the digit string a denotes more than the digit string b
\* (neither has leading zeros)
RECURSIVE DigitsAbove(_, _)
DigitsAbove(a, b) ==
    IF Len(a) # Len(b) THEN Len(a) > Len(b)
    ELSE IF a = <<>> THEN FALSE
    ELSE IF Head(a) # Head(b) THEN DigitVal(Head(a)) > DigitVal(Head(b))
    ELSE DigitsAbove(Tail(a), Tail(b))

\* LONG_MAX where long has 64 bits
LongMaxText ==
    <<"9", "2", "2", "3", "3", "7", "2", "0", "3", "6", "8", "5", "4", "7",
      "7", "5", "8", "0", "7">>

\* atoi(s) for a text of digits behind an optional "+".  The behaviour is
\* undefined when the value does not fit an int; the library then gives
\* the low 32 bits of the value (the conversion of a 64-bit long, or an
\* accumulation in int that wraps), INT_MAX where long has 32 bits and
\* strtol saturates, or -1, the low bits of LONG_MAX, where the value does
\* not fit a 64-bit long either.
AtoiOutcomes(s) ==
    LET t == SkipSpaces(s)
        d == StripZeros(IF t # <<>> /\ Head(t) = "+" THEN Tail(t) ELSE t)
    IN  IF ~ParseInt(s).big
        THEN {atoi(s)}
        ELSE {atoi(s), INT_MAX}
                \cup (IF DigitsAbove(d, LongMaxText) THEN {-1} ELSE {})

Typed(fn, text, test_id) ==
    [fn |-> fn, kind |-> "typed", text |-> text, test_id |-> test_id]

\* the lines of the model fit the buffer of the prompt
FitsIdBuffer(entries) ==
    \A k \in DOMAIN entries : Len(entries[k].text) <= ID_INPUT

\* update_record: the TestID is typed, then update_record_by_id runs
UpdateRecord(entries, action, answer, can_open) ==
    /\ pc = "main"
    /\ FitsIdBuffer(entries)
    /\ \E in \in {get_valid_input(entries, "test_id", 0)} :
           IF ~in.ok
           THEN /\ last' = Done("update", "cancelled")
                /\ found' = NoSearch
                /\ call' = NoCall
                /\ UNCHANGED <<records, next_id, filename, disk, pc,
                               session, allocs>>
           ELSE \E test_id \in AtoiOutcomes(trim_string(in.buffer)) :
                   /\ UpdateRecordById(test_id, action, answer, can_open)
                   /\ call' = Typed("update_record", trim_string(in.buffer),
                                    test_id)

\* recovery_data with the TestID typed at its prompt
RecoveryDataTyped(entries, action, answer, can_open) ==
    /\ pc = "main"
    /\ FitsIdBuffer(entries)
    /\ \E in \in {get_valid_input(entries, "test_id", 0)} :
           IF ~in.ok
           THEN /\ last' = Done("recovery", "cancelled")
                /\ found' = NoSearch
                /\ call' = NoCall
                /\ UNCHANGED <<records, next_id, filename, disk, pc,
                               session, allocs>>
           ELSE \E test_id \in AtoiOutcomes(trim_string(in.buffer)) :
                   /\ RecoveryData(action, test_id, FormatInt(test_id),
                                   answer, can_open)
                   /\ call' = Typed("recovery_data", trim_string(in.buffer),
                                    test_id)

\* what is typed at a TestID prompt: the ID of a record, plainly, between
\* spaces, behind a sign and behind zeros; an ID no record has; rejected
\* lines before an accepted one; rejected lines only; 2^31, 2^32,
\* 2^32 + 1 and 2^32 + 2; nineteen nines
IdEntries ==
    {<<Line(<<"1">>)>>, <<Line(<<" ", "2", " ">>)>>,
     <<Line(<<"+", "1">>)>>, <<Line(<<"0", "0", "2">>)>>,
     <<Line(FormatInt(AbsentId))>>,
     <<Line(<<"1", "a">>), ReadError, Line(<<"2">>)>>,
     <<Line(<<"0">>), Line(<<"-", "1">>), Line(<<"x">>)>>,
     <<Line(FormatInt(21474) \o FormatInt(83648))>>,
     <<Line(FormatInt(42949) \o FormatInt(67296))>>,
     <<Line(FormatInt(42949) \o FormatInt(67297))>>,
     <<Line(FormatInt(42949) \o FormatInt(67298))>>,
     <<Line([k \in 1..ID_INPUT |-> "9"])>>}

NextLookup ==
    \/ \E path \in Paths : OpenDatabase(path) /\ call' = NoCall
    \/ \E entries \in IdEntries, s \in UpdateInputs :
          /\ s.action # 1
          /\ UpdateRecord(entries, s.action, s.answer, s.can_open)
    \/ \E entries \in IdEntries, s \in RecoveryInputs :
          RecoveryDataTyped(entries, s.action, s.answer, s.can_open)

SpecLookup == InitInverse /\ [][NextLookup]_vars

(***************************************************************************)
(* Properties.                                                             *)
(***************************************************************************)
\* a database is bound: open or create has succeeded
Bound == pc # "select"

\* the operations that change the table
MutatingOps == {"add", "update", "soft_delete", "permanent_delete", "recover"}

\* the table as it was when the operation of the current step started
TableBefore == IF pc = "editing" THEN session.start ELSE records

\* the data rows of a file are the rows of the table recs, in order
RowsMatch(file, recs) ==
    /\ file.exists
    /\ file.header = HeaderLine
    /\ Len(file.rows) = Len(recs)
    /\ \A i \in DOMAIN recs :
          /\ Len(file.rows[i]) = 5
          /\ ParseInt(file.rows[i][1]).val = recs[i].test_id
          /\ ParseInt(file.rows[i][1]).rest = <<>>
          /\ file.rows[i][2] = recs[i].system_name
          /\ file.rows[i][3] = recs[i].test_type
          /\ string_to_test_result(file.rows[i][4]) = recs[i].test_result
          /\ ParseInt(file.rows[i][5]).val = recs[i].active
          /\ ParseInt(file.rows[i][5]).rest = <<>>

\* C1: once a database is bound, all test_id values in the table are
\* positive and pairwise distinct.
C1_IdsPositiveAndDistinct ==
    Bound =>
        /\ \A i \in DOMAIN records : records[i].test_id > 0
        /\ \A i, j \in DOMAIN records :
              i # j => records[i].test_id # records[j].test_id

\* C2: once a database is bound, next_id is greater than every test_id in
\* the table and at least 1; right after open it is the largest loaded ID
\* plus 1.
C2_NextIdAboveEveryId ==
    Bound =>
        /\ next_id >= 1
        /\ \A i \in DOMAIN records : next_id > records[i].test_id
        /\ last = Done("open", "loaded") => next_id = MaxId(records) + 1

\* C3: the number of records never exceeds MAX_RECORDS, whether the table
\* was filled by loading a file or by adding records.
C3_CountWithinCapacity == Len(records) <= MAX_RECORDS

C3_Witness ==
    /\ Len(records) = MAX_RECORDS
    /\ last = Done("open", "loaded")
    /\ Len(disk[filename].rows) > MAX_RECORDS

\* C4: a mutating operation ends either with its commit done and the
\* mutated table written, or, when the commit failed, with the table
\* exactly as it was before the operation started.
C4_FailedCommitRestoresTable ==
    [][last'.op \in MutatingOps
          => /\ last'.outcome = "saved"
                => RowsMatch(disk'[filename'], records')
             /\ last'.outcome = "save_failed" => records' = TableBefore]_vars

\* C5: if the rows of the backing file equalled the table before a mutating
\* operation, they equal the table again when the operation has returned.
C5_MemoryMatchesDisk ==
    [][(/\ last'.op \in MutatingOps
        /\ pc' = "main"
        /\ RowsMatch(disk[filename], TableBefore))
          => RowsMatch(disk'[filename'], records')]_vars

\* C6: when save_database succeeds the backing file is the header followed
\* by one row per record of the table, soft-deleted ones included, in table
\* order; when the file cannot be opened for writing it is left unchanged.
C6_SaveWritesWholeTable ==
    [][/\ last'.outcome = "saved" => RowsMatch(disk'[filename'], records')
       /\ last'.outcome = "save_failed" => disk' = disk]_vars

C6_Witness ==
    /\ last.outcome = "saved"
    /\ Len(records) >= 2
    /\ \E i \in DOMAIN records : records[i].active = 0
    /\ \E i \in DOMAIN records : records[i].active # 0

\* C7: a soft delete whose commit failed leaves every record, the flag of
\* the chosen one included, and the backing file as before the operation.
C7_FailedSoftDeleteChangesNothing ==
    [][last' = Done("soft_delete", "save_failed")
          => records' = records /\ disk' = disk]_vars

\* C8: on one bound store next_id never decreases, and an add that
\* allocates an ID advances next_id by exactly one.
C8_NextIdNeverDecreases ==
    [][(Bound /\ last'.op \notin {"open", "create"})
          => /\ next_id' >= next_id
             /\ allocs' # allocs => next_id' = next_id + 1]_vars

\* C9: an add attempted on a full table is rejected: the table, next_id
\* and the backing file are unchanged.
C9_AddOnFullTableChangesNothing ==
    [][(last'.op = "add" /\ Len(records) >= MAX_RECORDS)
          => /\ last'.outcome = "full"
             /\ records' = records
             /\ next_id' = next_id
             /\ allocs' = allocs
             /\ disk' = disk]_vars

C9_Witness ==
    /\ last = Done("add", "full")
    /\ Len(records) = MAX_RECORDS

C11_PermanentDeleteNeedsInactive ==
    [][/\ (\/ last' = Done("permanent_delete", "not_soft_deleted")
           \/ last' = Done("recovery", "not_found"))
          => (records' = records /\ disk' = disk)
       /\ Len(records') < Len(records)
          => \E i \in DOMAIN records :
                /\ records[i].active = 0
                /\ Len(records') = Len(records) - 1
                /\ \A j \in DOMAIN records' :
                      records'[j] = records[IF j < i THEN j ELSE j + 1]]_vars

\* delete_record has refused the permanent delete of a record that is
\* in the table and active
C11_Witness ==
    /\ last = Done("permanent_delete", "not_soft_deleted")
    /\ \E i \in DOMAIN records : records[i].active # 0

KeepingOps == {"add", "update", "soft_delete", "recover", "recovery", "search"}

C14_UpdateRejectsAbsentAndDeleted ==
    [][/\ last' = Done("update", "not_found")
          => /\ pc' = "main" /\ session' = NoSession
             /\ records' = records /\ disk' = disk
       /\ (pc = "main" /\ pc' = "editing")
          => /\ session'.index \in DOMAIN records
             /\ records[session'.index].active # 0
             /\ records' = records /\ disk' = disk]_vars

\* an update was rejected on a table that holds a soft-deleted record
C14_Witness ==
    /\ last = Done("update", "not_found")
    /\ pc = "main"
    /\ \E i \in DOMAIN records : records[i].active = 0

\* C15: the backup of an edit session is the record as it was when the
\* session was entered and is not taken again during the session; when the
\* session ends by a confirmed cancel or by a save that failed, the record
\* equals the backup and the rest of the table is as it was at entry; a
\* cancel leaves the file alone.
C15_SessionEndsAtBackup ==
    [][/\ (pc = "main" /\ pc' = "editing")
          => /\ session'.backup = records[session'.index]
             /\ session'.start = records
       /\ (pc = "editing" /\ pc' = "editing") => session' = session
       /\ (\/ last' = Done("update", "cancelled")
           \/ last' = Done("update", "save_failed"))
          => /\ pc = "editing" /\ pc' = "main"
             /\ records'[session.index] = session.backup
             /\ records' = session.start
       /\ last' = Done("update", "cancelled") => disk' = disk]_vars

\* an edit session with two fields edited in which the cancel prompt was
\* reached
C15_Witness ==
    /\ pc = "editing"
    /\ last = Done("update", "cancel_declined")
    /\ records[session.index].system_name # session.backup.system_name
    /\ records[session.index].test_type # session.backup.test_type

\* C16: a soft delete of a record that is already inactive, or of an ID
\* that is not in the table, is rejected and changes neither the table nor
\* the file; a committed soft delete was asked for an active record and
\* changes nothing but the active flag of that record, to 0, the record
\* staying at its index.
C16_SoftDeleteOnlyFlipsActive ==
    [][/\ (\/ last' = Done("soft_delete", "already_deleted")
           \/ last' = Done("soft_delete", "not_found"))
          => (records' = records /\ disk' = disk)
       /\ last' = Done("soft_delete", "saved")
          => \E i \in DOMAIN records :
                /\ records[i].active # 0
                /\ find_record_by_id(records, records[i].test_id) = i
                /\ Len(records') = Len(records)
                /\ records'[i] = [records[i] EXCEPT !.active = 0]
                /\ \A j \in DOMAIN records : j # i => records'[j] = records[j]]_vars

\* delete_record has rejected the soft delete of a record that is in the
\* table and inactive
C16_Witness ==
    /\ last = Done("soft_delete", "already_deleted")
    /\ \E i \in DOMAIN records : records[i].active = 0

\* C17: a recover asked for an ID that is absent or whose record is active
\* is rejected without a change; a committed recover was asked for an
\* inactive record and changes nothing but the active flag of that record,
\* to 1; after a recover whose commit failed the flag is 0 again and the
\* table and the file are as before.
C17_RecoverOnlyFlipsActive ==
    [][/\ last' = Done("recovery", "not_found")
          => (records' = records /\ disk' = disk)
       /\ last' = Done("recover", "saved")
          => \E i \in DOMAIN records :
                /\ records[i].active = 0
                /\ find_record_by_id(records, records[i].test_id) = i
                /\ Len(records') = Len(records)
                /\ records'[i] = [records[i] EXCEPT !.active = 1]
                /\ \A j \in DOMAIN records : j # i => records'[j] = records[j]
       /\ last' = Done("recover", "save_failed")
          => /\ \E i \in DOMAIN records : records[i].active = 0
             /\ records' = records
             /\ disk' = disk]_vars

\* a recover was confirmed and its commit failed
C17_Witness ==
    /\ last = Done("recover", "save_failed")
    /\ \E i \in DOMAIN records : records[i].active = 0

\* the decimal ID, the system name, the test type or the canonical result
\* text of r contains the query, letter case ignored
ContainsQuery(r, query) ==
    \/ strcasestr(FormatInt(r.test_id), query)
    \/ strcasestr(r.system_name, query)
    \/ strcasestr(r.test_type, query)
    \/ strcasestr(test_result_to_string(r.test_result), query)

\* C18: a search with a query of at least 3 characters displays exactly
\* the active records that contain the query, in table order; a shorter
\* query is rejected; a search that goes no further than its results
\* changes neither the table nor the file.
C18_SearchReturnsMatches ==
    [][found'.searched
          => /\ Len(found'.query) < MIN_SEARCH_LENGTH
                => (last' = Done("search", "rejected")
                      /\ found'.results = <<>>)
             /\ Len(found'.query) >= MIN_SEARCH_LENGTH
                => found'.results =
                     SelectSeq(records,
                               LAMBDA r : r.active # 0
                                          /\ ContainsQuery(r, found'.query))
             /\ last'.op = "search"
                => (records' = records /\ disk' = disk)]_vars

\* the first line of a file without its terminator: the pieces in front of
\* the first "\r" or "\n"
FirstLineText(file) ==
    LET ends == {k \in DOMAIN file.header : file.header[k] \in {"\r", "\n"}}
        stop == IF ends = {} THEN Len(file.header) + 1
                ELSE CHOOSE k \in ends : \A m \in ends : k <= m
    IN  SubSeq(file.header, 1, stop - 1)

C20_CreateNeverOverwrites ==
    [][last'.op = "create"
          => /\ \A p \in Paths : disk[p].exists => disk'[p] = disk[p]
             /\ last'.outcome # "created"
                => UNCHANGED <<records, next_id, filename, disk>>
             /\ last'.outcome = "created"
                => /\ ~disk[filename'].exists
                   /\ disk'[filename'] =
                         [exists |-> TRUE,
                          header |-> <<REQUIRED_HEADER, "\n">>,
                          rows   |-> <<>>]
                   /\ records' = <<>>
                   /\ next_id' = 1]_vars

\* a create was refused for an existing path while a database with records
\* was bound
C20_Witness ==
    /\ last = Done("create", "exists")
    /\ pc = "main"
    /\ records # <<>>

\* C22: in every state of a bound store the active field of every record
\* is 0 or 1.
C22_ActiveIsZeroOrOne ==
    Bound => \A i \in DOMAIN records : records[i].active \in {0, 1}

\* the four names of a TestResult, in lower case
ResultNames ==
    {LowerText(TextFailed), LowerText(TextPassed), LowerText(TextPending),
     LowerText(TextSuccess)}

IsPositiveInt(text) ==
    /\ text # <<>>
    /\ \A k \in DOMAIN text : isdigit(text[k])
    /\ \E k \in DOMAIN text : text[k] # "0"

\* the number a digit string denotes (for numbers far below INT_MAX)
RECURSIVE DecimalValue(_)
DecimalValue(text) ==
    IF text = <<>> THEN 0
    ELSE 10 * DecimalValue(SubSeq(text, 1, Len(text) - 1))
         + DigitVal(text[Len(text)])

\* the rows of a file whose first field is a positive integer
RowsWithId(file) ==
    SelectSeq(file.rows, LAMBDA row : row # <<>> /\ IsPositiveInt(row[1]))

\* C21: right after a load the table holds one record for each row whose
\* first field is a positive integer, in file order and up to the capacity
\* of the table, with that integer as its test_id, and no record for any
\* other row.
C21_BadRowsAreSkipped ==
    last = Done("open", "loaded")
       => /\ Len(records) <= Len(RowsWithId(disk[filename]))
          /\ Len(records) < Len(RowsWithId(disk[filename]))
                => Len(records) = MAX_RECORDS
          /\ \A i \in DOMAIN records :
                 /\ i <= Len(RowsWithId(disk[filename]))
                 /\ records[i].test_id =
                       DecimalValue(RowsWithId(disk[filename])[i][1])

\* no field of the table holds the delimiter
NoDelimiter(recs) ==
    \A i \in DOMAIN recs :
        /\ "," \notin Range(recs[i].system_name)
        /\ "," \notin Range(recs[i].test_type)

\* this step loads again the file that save_database wrote from the table
LoadsSavedFile ==
    /\ call.fn = "load_database"
    /\ call.saved
    /\ last' = Done("open", "loaded")
    /\ filename' = filename

\* C24: when the file written by save_database from a table without
\* delimiter characters is loaded, the table is as it was: the same count
\* and the same five fields at every index.
C24_SaveThenLoadIsIdentity ==
    [][(LoadsSavedFile /\ NoDelimiter(records))
          => /\ Len(records') = Len(records)
             /\ \A i \in DOMAIN records :
                   /\ records'[i].test_id = records[i].test_id
                   /\ records'[i].system_name = records[i].system_name
                   /\ records'[i].test_type = records[i].test_type
                   /\ records'[i].test_result = records[i].test_result
                   /\ records'[i].active = records[i].active]_vars

\* a file in the persisted format: the header line, and on every data row
\* a positive integer, a name, a type, one of the four result names in any
\* letter case, and 0 or 1
WellFormed(file) ==
    /\ file.exists
    /\ file.header = <<REQUIRED_HEADER, "\n">>
    /\ \A k \in DOMAIN file.rows :
          /\ Len(file.rows[k]) = 5
          /\ IsPositiveInt(file.rows[k][1])
          /\ file.rows[k][2] # <<>>
          /\ file.rows[k][3] # <<>>
          /\ LowerText(file.rows[k][4]) \in ResultNames
          /\ file.rows[k][5] \in {<<"0">>, <<"1">>}

\* C25: when a table was loaded from a well-formed file and saved, loading
\* the saved file gives the same table and the same next_id as the first
\* load, however often this is repeated.
C25_ReloadAfterSaveIsStable ==
    [][(LoadsSavedFile /\ WellFormed(call.first))
          => (records' = records /\ next_id' = next_id)]_vars

\* a well-formed file of two rows was loaded, saved and loaded again, and
\* the saved file differs from the first one
C25_Witness ==
    /\ last = Done("open", "loaded")
    /\ call.fn = "load_database"
    /\ WellFormed(call.first)
    /\ call.file # call.first
    /\ Len(records) >= 2

\* C27: the text of each of the four results, in any letter case, maps back
\* to that result; the text "Unknown" given for any other value, an absent
\* text and every text that is none of the four names map to
\* INVALID_RESULT, which is none of the four values.
C27_ResultMappingRoundTrip ==
    /\ INVALID_RESULT \notin {FAILED, PASSED, PENDING, SUCCESS}
    /\ call.fn = "result_round_trip"
          => call.ret =
                IF call.arg.result \in {FAILED, PASSED, PENDING, SUCCESS}
                THEN call.arg.result ELSE INVALID_RESULT
    /\ call.fn = "string_to_test_result"
          => IF call.arg.null \/ LowerText(call.arg.text) \notin ResultNames
             THEN call.ret = INVALID_RESULT
             ELSE /\ call.ret \in {FAILED, PASSED, PENDING, SUCCESS}
                  /\ LowerText(test_result_to_string(call.ret))
                        = LowerText(call.arg.text)

\* the name of Pending written in mixed case was mapped back
C27_Witness ==
    /\ call.fn = "result_round_trip"
    /\ call.arg.result = PENDING
    /\ call.arg.upper = {2, 4}
    /\ call.text = <<"p", "E", "n", "D", "i", "n", "g">>
    /\ call.ret = PENDING

\* the text without the whitespace in front of its first and behind its
\* last character that is not whitespace
Stripped(text) ==
    LET solid == {k \in DOMAIN text : ~isspace(text[k])}
    IN  IF solid = {} THEN <<>>
        ELSE SubSeq(text,
                    CHOOSE k \in solid : \A m \in solid : k <= m,
                    CHOOSE k \in solid : \A m \in solid : k >= m)

\* the characters a system name may hold besides letters and digits
NamePunctuation == {"(", ")", "[", "]", "-", "_", ".", " "}

\* the text, without its surrounding whitespace, has at least 3 characters
\* that are all letters, digits or name punctuation
IsSystemName(text) ==
    /\ Len(Stripped(text)) >= 3
    /\ \A k \in DOMAIN Stripped(text) :
          \/ isalnum(Stripped(text)[k])
          \/ Stripped(text)[k] \in NamePunctuation

\* the text, without its surrounding whitespace, has at least 3 characters
\* that are all letters or digits
IsTestType(text) ==
    /\ Len(Stripped(text)) >= 3
    /\ \A k \in DOMAIN Stripped(text) : isalnum(Stripped(text)[k])

\* C28: validate_system_name returns 1 exactly when the input is present
\* and, without its surrounding whitespace, has at least 3 characters that
\* are all letters, digits or one of ( ) [ ] - _ . and space; the text at
\* input is the same after the call.
C28_SystemNameAccepted ==
    call.fn = "validate_system_name"
       => /\ call.ret <=> (~call.arg.null /\ IsSystemName(call.arg.text))
          /\ call.after = call.arg.text

\* a name between spaces, with a character allowed in names only, was
\* accepted
C28_Witness ==
    /\ call.fn = "validate_system_name"
    /\ call.arg.text = <<" ", "1", "-", "2", " ">>
    /\ call.ret
    /\ call.after = call.arg.text

\* C29: validate_test_type returns 1 exactly when the input is present and,
\* without its surrounding whitespace, has at least 3 characters that are
\* all letters or digits.
C29_TestTypeAccepted ==
    call.fn = "validate_test_type"
       => (call.ret <=> (~call.arg.null /\ IsTestType(call.arg.text)))

\* a type with a space inside was rejected
C29_Witness ==
    /\ call.fn = "validate_test_type"
    /\ call.arg.text = <<"a", " ", "B">>
    /\ ~call.ret

\* the text is an optional sign followed by digits only and denotes a
\* number above 0
IsDecimalAboveZero(text) ==
    /\ text # <<>>
    /\ LET digits == IF text[1] \in {"+", "-"} THEN Tail(text) ELSE text
       IN  /\ digits # <<>>
           /\ \A k \in DOMAIN digits : isdigit(digits[k])
           /\ \E k \in DOMAIN digits : digits[k] # "0"
    /\ text[1] # "-"

\* C30: validate_test_id returns 1 exactly when the input is present and,
\* without its surrounding whitespace, is a decimal integer above 0 with
\* nothing behind its digits.
C30_TestIdAccepted ==
    call.fn = "validate_test_id"
       => (call.ret
             <=> /\ ~call.arg.null
                 /\ IsDecimalAboveZero(Stripped(call.arg.text)))

\* a number between spaces was accepted
C30_Witness ==
    /\ call.fn = "validate_test_id"
    /\ call.arg.text = <<" ", "7", "0", " ">>
    /\ call.ret

\* the entry read at the k-th prompt: once the entries are used up the
\* input is at its end and the read fails
EntryAt(entries, k) == IF k <= Len(entries) THEN entries[k] ELSE ReadError

\* the validator, by name, accepts the text
Accepts(validator, text) ==
    CASE validator = "system_name" -> IsSystemName(text)
      [] validator = "test_type"   -> IsTestType(text)
      [] OTHER                     -> TRUE

\* the entry is unreadable, empty or rejected by the validator
Refused(validator, entry) ==
    \/ ~entry.read
    \/ Stripped(entry.text) = <<>>
    \/ ~Accepts(validator, entry.text)

\* what get_valid_input returned for the entries it found
InputContract(entries, validator, ret) ==
    /\ ret.ok
          => \E k \in 1..MAX_ATTEMPTS :
                /\ ~Refused(validator, EntryAt(entries, k))
                /\ \A j \in 1..(k - 1) : Refused(validator, EntryAt(entries, j))
                /\ Stripped(ret.buffer) = Stripped(entries[k].text)
                /\ ret.attempts = k - 1
    /\ ~ret.ok
          => /\ ret.attempts = MAX_ATTEMPTS
             /\ \A j \in 1..MAX_ATTEMPTS :
                   Refused(validator, EntryAt(entries, j))

\* C26: get_valid_input returns 1 only for the first entry that is
\* readable, non-empty and accepted by the validator, within the first
\* MAX_ATTEMPTS entries, and returns 0 exactly when MAX_ATTEMPTS entries
\* were refused; the record that an add appends and the field that an edit
\* replaces hold a text that the validator of the field accepts; a
\* cancelled add leaves the table and the file as they were.
C26_InputBudgetAndValidation ==
    [][/\ call'.fn = "get_valid_input"
          => InputContract(call'.arg.entries, call'.arg.validator, call'.ret)
       /\ last'.op = "add"
          => /\ last'.outcome = "cancelled"
                => (records' = records /\ disk' = disk)
             /\ Len(records') > Len(records)
                => /\ IsSystemName(records'[Len(records')].system_name)
                   /\ IsTestType(records'[Len(records')].test_type)
       /\ last' = Done("update", "edited")
          => \A i \in DOMAIN records :
                /\ records'[i].system_name # records[i].system_name
                      => IsSystemName(records'[i].system_name)
                /\ records'[i].test_type # records[i].test_type
                      => IsTestType(records'[i].test_type)]_vars

\* get_valid_input gave up after three refused entries although a fourth,
\* acceptable one was waiting
C26_Witness ==
    /\ call.fn = "get_valid_input"
    /\ ~call.ret.ok
    /\ call.ret.attempts = MAX_ATTEMPTS
    /\ Len(call.arg.entries) = 4
    /\ call.arg.entries[4] = Line(<<"a", "b", "c">>)
    /\ call.arg.validator = "test_type"

\* C31: find_record_by_id(id) returns the lowest index of a record with
\* that ID, active or soft-deleted, when the table holds one, and "not
\* found" otherwise; it returns "not found" for id <= 0; the table, the
\* counter and the files are as they were.
C31_FindReturnsLowestIndex ==
    [][call'.fn = "find_record_by_id" /\ call.fn = "none"
       => /\ (\E i \in DOMAIN records : records[i].test_id = call'.arg)
                => /\ call'.ret \in DOMAIN records
                   /\ records[call'.ret].test_id = call'.arg
                   /\ \A j \in 1..(call'.ret - 1) :
                         records[j].test_id # call'.arg
          /\ (\A i \in DOMAIN records : records[i].test_id # call'.arg)
                => call'.ret = 0
          /\ call'.arg <= 0 => call'.ret = 0
          /\ records' = records /\ next_id' = next_id /\ disk' = disk
          /\ filename' = filename]_vars

\* the text has no surrounding whitespace and 3 to 99 characters
FitsField(text) ==
    /\ Stripped(text) = text
    /\ Len(text) >= MIN_NAME_LENGTH
    /\ Len(text) <= NAME_FIELD_MAX

\* C32: the record that an add appends, and the record of the session
\* after an accepted edit of its system name or test type, hold a
\* system_name and a test_type without surrounding whitespace and of 3 to
\* 99 characters.
C32_StoredTextFitsField ==
    [][/\ last'.op = "add" /\ Len(records') > Len(records)
          => /\ FitsField(records'[Len(records')].system_name)
             /\ FitsField(records'[Len(records')].test_type)
       /\ last' = Done("update", "edited") /\ pc = "editing"
          => \A i \in DOMAIN records :
                /\ records'[i].system_name # records[i].system_name
                      => FitsField(records'[i].system_name)
                /\ records'[i].test_type # records[i].test_type
                      => FitsField(records'[i].test_type)]_vars

\* C33: the TestID of a record that an add appends is none of the IDs that
\* the records of the file have carried before, also after a permanent
\* delete was saved and the file was loaded again.
C33_IdNeverReused ==
    [][last'.op = "add" /\ Len(records') > Len(records)
       => records'[Len(records')].test_id \notin call.ids]_vars

\* the first line typed, without surrounding whitespace, begins with y or Y
BeginsWithYes(entries) ==
    /\ entries # <<>>
    /\ Head(entries).read
    /\ Stripped(Head(entries).text) # <<>>
    /\ Head(Stripped(Head(entries).text)) \in {"y", "Y"}

\* C34: a step taken inside the edit loop either is Save, which writes the
\* table or restores the backup and ends the session, or is Cancel
\* answered with a line that begins with y, or stays in the loop with the
\* same session; when the menu was abandoned, a field input was cancelled
\* or the cancel was declined, the table with its unsaved edits and the
\* file are as before.
C34_EditLoopExits ==
    [][pc = "editing"
       => \/ /\ pc' = "main"
             /\ last' = Done("update", "saved")
             /\ disk' = [disk EXCEPT ![filename] = EncodeFile(records)]
          \/ /\ pc' = "main"
             /\ last' = Done("update", "save_failed")
          \/ /\ pc' = "main"
             /\ last' = Done("update", "cancelled")
             /\ call'.fn = "get_yes_no"
             /\ BeginsWithYes(call'.arg)
          \/ /\ pc' = "editing"
             /\ session' = session
             /\ disk' = disk
             /\ last'.outcome \in {"menu_abandoned", "edit_cancelled",
                                   "cancel_declined"}
                   => records' = records]_vars

\* the session is still in the loop, with an edit unsaved, after the cancel
\* was declined by a line that is no answer
C34_Witness ==
    /\ pc = "editing"
    /\ last = Done("update", "cancel_declined")
    /\ call.fn = "get_yes_no"
    /\ call.arg = <<Line(<<"o", "k">>), Line(<<"y">>)>>
    /\ records # session.start

\* the entry is no answer: unreadable, empty, or beginning with neither y
\* nor n
NoAnswer(entry) ==
    \/ ~entry.read
    \/ Stripped(entry.text) = <<>>
    \/ Head(Stripped(entry.text)) \notin {"y", "Y", "n", "N"}

\* within the attempts allowed, a line beginning with y was typed, after
\* nothing but entries that are no answer
ExplicitYes(entries, max_attempts) ==
    \E k \in 1..max_attempts :
        /\ k <= Len(entries)
        /\ BeginsWithYes(<<entries[k]>>)
        /\ \A j \in 1..(k - 1) : NoAnswer(entries[j])

\* C35: a soft delete, a permanent delete or a recover that changes the
\* table or a file was confirmed by a line beginning with y, typed within
\* the three attempts after nothing but empty, invalid or unreadable
\* entries; a permanent delete in addition by the TestID typed again.
C35_ChangeNeedsExplicitYes ==
    [][/\ last'.op \in {"soft_delete", "permanent_delete", "recover"}
       /\ (records' # records \/ disk' # disk)
       => /\ call'.fn = "get_yes_no"
          /\ ExplicitYes(call'.arg, 3)
          /\ last'.op = "permanent_delete"
                => Stripped(call'.retyped) = FormatInt(call'.test_id)]_vars

\* C36: a step that stays in the Editing state changes nothing but
\* system_name, test_type and test_result of the record of the session:
\* its test_id and active flag, the other records, their number, next_id
\* and the files are as before.
C36_EditsTouchOnlyThreeFields ==
    [][pc = "editing" /\ pc' = "editing"
       => /\ Len(records') = Len(records)
          /\ \A i \in DOMAIN records :
                IF i = session.index
                THEN /\ records'[i].test_id = records[i].test_id
                     /\ records'[i].active = records[i].active
                ELSE records'[i] = records[i]
          /\ next_id' = next_id
          /\ disk' = disk
          /\ session' = session]_vars

\* C37: a change of database that was declined, that ended without a file
\* chosen, that chose a file which is missing or whose first line is not
\* the required header, or that named a new database which exists, leaves
\* records, next_id and filename as they were and the program at the main
\* menu.
C37_FailedChangeKeepsStore ==
    [][/\ pc = "main"
       /\ call'.fn = "change_database"
       /\ \/ ~call'.answer
          \/ call'.kind = "none"
          \/ /\ call'.kind = "open"
             /\ \/ ~disk[call'.target].exists
                \/ FirstLineText(disk[call'.target]) # <<REQUIRED_HEADER>>
          \/ /\ call'.kind = "create"
             /\ disk[call'.target].exists
       => /\ UNCHANGED <<records, next_id, filename, disk>>
          /\ pc' = "main"]_vars

\* a file with another first line was chosen while a database with records
\* was bound, and the records are still there
C37_Witness ==
    /\ call.fn = "change_database"
    /\ call.kind = "open"
    /\ call.answer
    /\ disk[call.target].exists
    /\ FirstLineText(disk[call.target]) # <<REQUIRED_HEADER>>
    /\ last = Done("open", "rejected")
    /\ records # <<>>

\* C38 as stated: for a record with active = 1, a committed soft delete
\* followed by a committed recover of the same ID leaves the table and the
\* rows of the backing file identical to what they were before the soft
\* delete.
C38_DeleteRecoverRestoresFileRows ==
    call.kind = "recovered"
        => /\ records = call.table
           /\ disk[filename].rows = call.file.rows

\* C38 amended: for a record with active = 1, a committed soft delete
\* followed by a committed recover of the same ID leaves the table
\* identical to what it was before the soft delete, and the backing file
\* holding the header and the rows save_database writes for that table;
\* these are the rows the file held before whenever the file held what
\* save_database writes for the table.
C38_DeleteRecoverRestoresTable ==
    call.kind = "recovered"
        => /\ records = call.table
           /\ disk[filename] = EncodeFile(call.table)
           /\ call.file = EncodeFile(call.table)
                 => disk[filename].rows = call.file.rows

\* the second of two active records was soft-deleted and recovered, on a
\* file that held the rows of the table
C38_Witness ==
    /\ call.kind = "recovered"
    /\ last = Done("recover", "saved")
    /\ Len(records) = 2
    /\ find_record_by_id(records, call.test_id) = 2
    /\ call.table[2].active = 1
    /\ call.file = EncodeFile(call.table)

\* the number a text accepted by validate_test_id denotes, in the digits
\* printf("%d") gives it: the text without the sign and the leading zeros
DenotedDigits(text) ==
    StripZeros(IF Head(text) = "+" THEN Tail(text) ELSE text)

\* C39: every text accepted by validate_test_id at a TestID prompt is
\* looked up as the positive int it denotes: atoi gives no other, zero or
\* negative test_id for it.
C39_AcceptedIdIsLookedUpAsTyped ==
    call.kind = "typed"
        => /\ call.test_id > 0
           /\ FormatInt(call.test_id) = DenotedDigits(call.text)

====
